---- MODULE Spec2Model ----
(***************************************************************************)
(* SentinelWatch SIEM: log ingestion, rule-based detection with temporal   *)
(* correlation, and the alert lifecycle.                                   *)
(*                                                                         *)
(* Time is counted in minutes since Monday 00:00 of a reference week.      *)
(* Event timestamps (taken from the log text) and the wall clock `now`     *)
(* (datetime.utcnow()) share this unit but are independent of each other.  *)
(***************************************************************************)
EXTENDS Integers, Sequences, FiniteSets, TLC

VARIABLES
    now,          \* the wall clock read by datetime.utcnow()
    log_entries,  \* committed rows of table log_entries; row i has id i
    alerts,       \* committed rows of table alerts; row i is alert_id i
    session,      \* rows added and flushed by the request in progress, not yet committed
    queue,        \* what the batch in progress still has to process
    pc,           \* "idle", or the ingestion in progress: "single", "text" or "file"
    req,          \* the request in progress or last finished: its input and its outcome
    last,         \* the last detection run: its entry, what get_location gave the
                  \* rules, the rules that raised, the result; n flips with every run
    calls         \* how many lifecycle requests (acknowledge, resolve, notes) were served

vars == <<now, log_entries, alerts, session, queue, pc, req, last, calls>>

----------------------------------------------------------------------------
(* Python values                                                           *)

\* None in a string column or argument.
None == "<None>"

\* None in a datetime column.
NoTime == 0 - 1

\* Python truthiness of an optional string: None and "" are falsy.
Truthy(s) == s # None /\ s # ""

\* a or b, for optional strings.
Or(a, b) == IF Truthy(a) THEN a ELSE b

\* str.lower() on the vocabulary of the model.
Lower(s) ==
    CASE s = "FAILED" -> "failed"
      [] s = "Failed" -> "failed"
      [] s = "SUCCESS" -> "success"
      [] s = "Accepted" -> "accepted"
      [] s = "LOGIN" -> "login"
      [] s = "Login" -> "login"
      [] s = "SUDO" -> "sudo"
      [] s = "ROOT" -> "root"
      [] OTHER -> s

----------------------------------------------------------------------------
(* Settings (backend/config/config.py)                                     *)

business_hours_start == 8
business_hours_end == 18
brute_force_threshold == 5
brute_force_window_minutes == 10

\* A setting string is a sequence of tokens: an address (its four octets), a
\* blank or a comma.
Blank == <<32>>
Comma == <<44>>

\* The default of IP_BLACKLIST.
ip_blacklist ==
    <<<<10, 0, 0, 100>>, Comma, <<192, 168, 1, 200>>, Comma, <<172, 16, 0, 50>>>>

\* str.split(',')
RECURSIVE Split(_)
Split(s) ==
    IF \A i \in DOMAIN s : s[i] # Comma THEN <<s>>
    ELSE LET i == CHOOSE k \in DOMAIN s :
                     s[k] = Comma /\ \A j \in 1..(k - 1) : s[j] # Comma
         IN <<SubSeq(s, 1, i - 1)>> \o Split(SubSeq(s, i + 1, Len(s)))

\* str.strip()
RECURSIVE Strip(_)
Strip(s) ==
    IF s = <<>> THEN s
    ELSE IF Head(s) = Blank THEN Strip(Tail(s))
    ELSE IF s[Len(s)] = Blank THEN Strip(SubSeq(s, 1, Len(s) - 1))
    ELSE s

\* set(ip.strip() for ip in setting.split(',') if ip.strip())
ParseBlacklist(setting) ==
    {Strip(Split(setting)[i]) : i \in DOMAIN Split(setting)} \ {<<>>}

\* self.blacklist of BlacklistIPDetectionRule, as the addresses that are
\* members of it: a source_ip is one address, and equals no longer entry.
blacklist ==
    {entry[1] : entry \in {x \in ParseBlacklist(ip_blacklist) : Len(x) = 1}}

----------------------------------------------------------------------------
(* Helpers (backend/app/utils/helpers.py)                                  *)

MinutesPerDay == 24 * 60

\* datetime.weekday(): Monday is 0.
Weekday(t) == (t \div MinutesPerDay) % 7

\* datetime.hour
Hour(t) == (t % MinutesPerDay) \div 60

\* is_business_hours with the closing hour counted in.
is_business_hours_Inclusive(timestamp, start_hour, end_hour) ==
    IF Weekday(timestamp) >= 5 THEN FALSE
    ELSE start_hour <= Hour(timestamp) /\ Hour(timestamp) <= end_hour

is_business_hours(timestamp, start_hour, end_hour) ==
    IF Weekday(timestamp) >= 5 THEN FALSE
    ELSE start_hour <= Hour(timestamp) /\ Hour(timestamp) < end_hour

\* A timestamp string is modelled by what parse_timestamp makes of it:
\* kind "ok" is a string with a year that parses to the instant t; kind
\* "syslog" is a string 'Mon DD HH:MM:SS', which names the instant t when read
\* in the current year; kind "bad" matches no format (None); kind "overflow"
\* is a number float() accepts and datetime.fromtimestamp rejects with
\* OverflowError, which parse_timestamp does not catch; kind "now" is the
\* text of datetime.utcnow().isoformat().
TsOk(t) == [kind |-> "ok", t |-> t]
TsSyslog(t) == [kind |-> "syslog", t |-> t]
TsBad == [kind |-> "bad", t |-> 0]
TsOverflow == [kind |-> "overflow", t |-> 0]
TsNow == [kind |-> "now", t |-> 0]

ParseTimestampRaises(ts) == ts.kind = "overflow"

\* datetime.strptime gives a string without a year the year 1900: the
\* minutes between a date of 1900 and the same date of the current year
\* (2024: 124 years, 30 of them leap years).
MinutesSince1900 == (124 * 365 + 30) * MinutesPerDay

\* parse_timestamp at wall-clock time t (read by the string "now" only).
parse_timestamp_at(ts, t) ==
    CASE ts.kind = "ok" -> ts.t
      [] ts.kind = "syslog" -> ts.t - MinutesSince1900
      [] ts.kind = "now" -> t
      [] OTHER -> NoTime

parse_timestamp(ts) == parse_timestamp_at(ts, NoTime)

----------------------------------------------------------------------------
(* Geolocation (api/app/utils/geolocation.py)                              *)

\* An IP address is the tuple of its dotted parts; the empty string is <<>>.
NoIp == <<>>

\* Coordinates are in hundredths of a degree. A nullable coordinate or record
\* is a sequence of length 0 (None) or 1.
SanFrancisco == [country_code |-> "US", latitude |-> 3777, longitude |-> 0 - 12242]
Tokyo == [country_code |-> "JP", latitude |-> 3568, longitude |-> 13969]
LosAngeles == [country_code |-> "US", latitude |-> 3405, longitude |-> -11824]
\* A place on the equator: its latitude is 0.0.
Pontianak == [country_code |-> "ID", latitude |-> 0, longitude |-> 10933]
\* A place on the prime meridian: its longitude is 0.0.
Greenwich == [country_code |-> "GB", latitude |-> 5148, longitude |-> 0]
Seattle == [country_code |-> "US", latitude |-> 4761, longitude |-> 0 - 12233]

\* A record whose country is null: the registry gives coordinates only.
NoCountry == [country_code |-> None, latitude |-> 4700, longitude |-> 800]

\* What the local database or ip-api.com knows; every other address is a miss.
GeoKnown(ip) ==
    CASE ip = <<198, 51, 100, 10>> -> <<SanFrancisco>>
      [] ip = <<192, 0, 2, 99>> -> <<NoCountry>>
      [] ip = <<203, 0, 113, 20>> -> <<Tokyo>>
      [] ip = <<198, 51, 100, 30>> -> <<LosAngeles>>
      [] ip = <<198, 51, 100, 77>> -> <<Pontianak>>
      [] ip = <<192, 0, 2, 51>> -> <<Greenwich>>
      [] ip = <<198, 51, 100, 40>> -> <<Seattle>>
      [] OTHER -> <<>>

\* How self.geoip_reader.city(ip) may end: there is no reader ("no_reader"),
\* it returns the record of the address, or it raises AddressNotFoundError,
\* ValueError, or an exception of another class (TypeError when the file is
\* not a City database, InvalidDatabaseError when it is damaged).
DbResults(ip) ==
    {"no_reader", "AddressNotFoundError", "ValueError", "TypeError"}
    \cup (IF GeoKnown(ip) # <<>> THEN {"found"} ELSE {})

\* How requests.get and response.json() may end: a body with status success,
\* a body with status fail, a status code other than 200, a body that is not
\* JSON, or a timeout.
HttpResults(ip) ==
    {"fail", "non_200", "malformed", "timeout"}
    \cup (IF GeoKnown(ip) # <<>> THEN {"success"} ELSE {})

\* _is_private_ip with only 172.16.x.x of the 172 range.
_is_private_ip_Narrow(ip) ==
    IF Len(ip) # 4 THEN FALSE
    ELSE \/ ip[1] = 10
         \/ ip[1] = 172 /\ ip[2] = 16
         \/ ip[1] = 192 /\ ip[2] = 168
         \/ ip[1] = 127

_is_private_ip(ip) ==
    IF Len(ip) # 4 THEN FALSE
    ELSE \/ ip[1] = 10
         \/ ip[1] = 172 /\ 16 <= ip[2] /\ ip[2] <= 31
         \/ ip[1] = 192 /\ ip[2] = 168
         \/ ip[1] = 127

\* One call of get_location when the reader ends as db and the HTTP request
\* as http: whether it raises, the value it returns (None is <<>>), and
\* whether it called the reader and the HTTP service.
get_location_call(ip, db, http) ==
    LET call(raises, value, db_called, http_called) ==
            [ip |-> ip, raises |-> raises, value |-> value,
             db_called |-> db_called, http_called |-> http_called]
        reader == db # "no_reader"
    IN IF _is_private_ip(ip) THEN call(FALSE, <<>>, FALSE, FALSE)
       ELSE IF db = "found" THEN call(FALSE, GeoKnown(ip), TRUE, FALSE)
       ELSE IF db = "TypeError" THEN call(TRUE, <<>>, TRUE, FALSE)
       ELSE IF http = "success" THEN call(FALSE, GeoKnown(ip), reader, TRUE)
       ELSE call(FALSE, <<>>, reader, TRUE)

\* The calls get_location(ip) may make.
get_location_calls(ip) ==
    {get_location_call(ip, db, http) : db \in DbResults(ip), http \in HttpResults(ip)}

\* The values get_location may return for ip: None for a private address;
\* otherwise the record of the address when the lookup succeeds, and None when
\* the address is unknown or the lookup fails (timeout, non-200, bad body).
get_location(ip) == {c.value : c \in {x \in get_location_calls(ip) : ~x.raises}}

\* calculate_distance rounded to whole kilometres: the haversine distance
\* (R = 6371) between the places of the model.
calculate_distance(lat1, lon1, lat2, lon2) ==
    LET a == <<lat1, lon1>>
        b == <<lat2, lon2>>
        sf == <<SanFrancisco.latitude, SanFrancisco.longitude>>
        tk == <<Tokyo.latitude, Tokyo.longitude>>
        pk == <<Pontianak.latitude, Pontianak.longitude>>
        la == <<LosAngeles.latitude, LosAngeles.longitude>>
        gw == <<Greenwich.latitude, Greenwich.longitude>>
        se == <<Seattle.latitude, Seattle.longitude>>
    IN CASE a = b -> 0
         [] {a, b} = {sf, tk} -> 8272
         [] {a, b} = {sf, la} -> 559
         [] {a, b} = {sf, pk} -> 13266
         [] {a, b} = {tk, la} -> 8817
         [] {a, b} = {tk, pk} -> 5059
         [] {a, b} = {la, pk} -> 13787
         [] {a, b} = {se, sf} -> 1094
         [] {a, b} = {se, tk} -> 7697
         [] {a, b} = {se, la} -> 1546
         [] {a, b} = {se, pk} -> 12756
         [] {a, b} = {se, gw} -> 7707
         [] {a, b} = {gw, sf} -> 8625
         [] {a, b} = {gw, tk} -> 9558
         [] {a, b} = {gw, la} -> 8764
         [] {a, b} = {gw, pk} -> 11330
         [] OTHER -> 0

\* An optional float tested with "is not None": 0.0 passes.
TruthyNum_NotNone(x) == x # <<>>

\* Truthiness of an optional float: None and 0.0 are falsy.
TruthyNum(x) == x # <<>> /\ x[1] # 0

----------------------------------------------------------------------------
(* Tables (backend/app/models/database.py, as the code uses them)          *)

\* LogEntry(...) as parse_line and ingest_single_log build it; id is set by flush.
LogEntry(timestamp, source_ip, username, event_type, status, raw_log, loc) ==
    [id |-> 0,
     timestamp |-> timestamp,
     source_ip |-> source_ip,
     username |-> username,
     event_type |-> event_type,
     status |-> status,
     raw_log |-> raw_log,
     country_code |-> IF loc = <<>> THEN None ELSE loc[1].country_code,
     latitude |-> IF loc = <<>> THEN <<>> ELSE <<loc[1].latitude>>,
     longitude |-> IF loc = <<>> THEN <<>> ELSE <<loc[1].longitude>>]

\* The rows a query of the request in progress sees: committed and flushed.
Visible == log_entries \o session

----------------------------------------------------------------------------
(* Detection rules (api/app/detection/rules.py)                            *)

\* The keyword test without lower(): the token as it is written.
KeywordIn_Exact(keyword, token) ==
    CASE token = "sudo" -> keyword \in {"sudo", "su"}
      [] token = "su" -> keyword = "su"
      [] token = "success" -> keyword = "su"
      [] token = "root" -> keyword = "root"
      [] token = "admin" -> keyword = "admin"
      [] token = "admin_access" -> keyword = "admin"
      [] token = "privilege_escalation" -> keyword = "privilege"
      [] OTHER -> FALSE

\* The keyword test by whole words: the lowercased token is the keyword.
KeywordIn_WholeWord(keyword, token) == Lower(token) = keyword

\* Whether keyword occurs in the lowercased token, for the tokens of the model.
KeywordIn(keyword, token) ==
    LET t == Lower(token)
    IN CASE t = "sudo" -> keyword \in {"sudo", "su"}
         [] t = "su" -> keyword = "su"
         [] t = "success" -> keyword = "su"
         [] t = "root" -> keyword = "root"
         [] t = "admin" -> keyword = "admin"
         [] t = "admin_access" -> keyword = "admin"
         [] t = "privilege_escalation" -> keyword = "privilege"
         [] OTHER -> FALSE

\* keyword in log_lower, the raw log being a sequence of tokens.
InRawLog(keyword, raw_log) ==
    \E i \in DOMAIN raw_log : KeywordIn(keyword, raw_log[i])

escalation_keywords ==
    <<"sudo", "su", "admin", "root", "elevate", "privilege",
      "runas", "impersonate", "escalate">>

\* The dedup query without its filter on resolved.
RecentAlert_Resolved(als, rule_name, start, byIp, ip, byUser, user) ==
    \E i \in DOMAIN als :
        /\ als[i].rule_name = rule_name
        /\ byIp => als[i].source_ip = ip
        /\ byUser => als[i].username = user
        /\ als[i].triggered_at >= start

\* The dedup query with triggered_at > start.
RecentAlert_Strict(als, rule_name, start, byIp, ip, byUser, user) ==
    \E i \in DOMAIN als :
        /\ als[i].rule_name = rule_name
        /\ byIp => als[i].source_ip = ip
        /\ byUser => als[i].username = user
        /\ als[i].triggered_at > start
        /\ als[i].resolved = FALSE

\* db.query(Alert).filter(rule_name, <key>, triggered_at >= start, resolved == False).first()
\* is not None, the key being source_ip, username or both.
RecentAlert(als, rule_name, start, byIp, ip, byUser, user) ==
    \E i \in DOMAIN als :
        /\ als[i].rule_name = rule_name
        /\ byIp => als[i].source_ip = ip
        /\ byUser => als[i].username = user
        /\ als[i].triggered_at >= start
        /\ als[i].resolved = FALSE

\* The count query of BruteForceDetectionRule.check.
FailedCount(e, evs) ==
    LET time_window_start == e.timestamp - brute_force_window_minutes
    IN Cardinality({i \in DOMAIN evs :
           /\ evs[i].source_ip = e.source_ip
           /\ evs[i].status = "failed"
           /\ evs[i].event_type = "login"
           /\ evs[i].timestamp >= time_window_start
           /\ evs[i].timestamp <= e.timestamp})

\* check with failed_count > brute_force_threshold.
BruteForceCheck_Above(e, evs, als) ==
    IF e.status # "failed" \/ e.event_type # "login" THEN <<>>
    ELSE IF e.source_ip = NoIp THEN <<>>
    ELSE LET time_window_start == e.timestamp - brute_force_window_minutes
             failed_count == FailedCount(e, evs)
         IN IF /\ failed_count > brute_force_threshold
               /\ ~RecentAlert(als, "brute_force_login", time_window_start,
                               TRUE, e.source_ip, FALSE, None)
            THEN <<[rule_name |-> "brute_force_login",
                    severity |-> "High",
                    context |-> [source_ip |-> e.source_ip,
                                 failed_attempts |-> failed_count,
                                 time_window_minutes |-> brute_force_window_minutes,
                                 affected_users |->
                                     IF Truthy(e.username) THEN <<e.username>> ELSE <<>>]]>>
            ELSE <<>>

BruteForceCheck(e, evs, als) ==
    IF e.status # "failed" \/ e.event_type # "login" THEN <<>>
    ELSE IF e.source_ip = NoIp THEN <<>>
    ELSE LET time_window_start == e.timestamp - brute_force_window_minutes
             failed_count == FailedCount(e, evs)
         IN IF /\ failed_count >= brute_force_threshold
               /\ ~RecentAlert(als, "brute_force_login", time_window_start,
                               TRUE, e.source_ip, FALSE, None)
            THEN <<[rule_name |-> "brute_force_login",
                    severity |-> "High",
                    context |-> [source_ip |-> e.source_ip,
                                 failed_attempts |-> failed_count,
                                 time_window_minutes |-> brute_force_window_minutes,
                                 affected_users |->
                                     IF Truthy(e.username) THEN <<e.username>> ELSE <<>>]]>>
            ELSE <<>>

max_travel_time_hours == 1
min_distance_km == 1000
\* An aircraft half as fast again as the rule assumes.
max_realistic_speed_Fast == 800 + 400
max_realistic_speed == 800

\* The previous_login query without its order_by: any row of the filter.
PreviousLogins_Any(e, evs) ==
    LET time_window_start == e.timestamp - 60 * max_travel_time_hours
    IN {i \in DOMAIN evs :
          /\ evs[i].username = e.username
          /\ evs[i].status = "success"
          /\ evs[i].event_type = "login"
          /\ evs[i].timestamp >= time_window_start
          /\ evs[i].timestamp < e.timestamp
          /\ evs[i].source_ip # e.source_ip
          /\ evs[i].latitude # <<>>}

\* The rows the previous_login query selects from: .first() of them by
\* timestamp descending, so any row of the greatest timestamp.
PreviousLogins(e, evs) ==
    LET time_window_start == e.timestamp - 60 * max_travel_time_hours
        cand == {i \in DOMAIN evs :
                   /\ evs[i].username = e.username
                   /\ evs[i].status = "success"
                   /\ evs[i].event_type = "login"
                   /\ evs[i].timestamp >= time_window_start
                   /\ evs[i].timestamp < e.timestamp
                   /\ evs[i].source_ip # e.source_ip
                   /\ evs[i].latitude # <<>>}
    IN {i \in cand : \A j \in cand : evs[j].timestamp <= evs[i].timestamp}

\* round(hours_diff, 2) in hundredths of an hour, for a whole number of
\* minutes: minutes / 60 is never half-way between two hundredths.
round2_hours(minutes) == (10 * minutes + 3) \div 6

\* check that does not look at status and event_type.
ImpossibleTravelWith_AnyStatus(e, evs, als, current_location, p) ==
    IF ~Truthy(e.username) \/ e.source_ip = NoIp THEN <<>>
    ELSE IF current_location = <<>> \/ current_location[1].latitude = 0 THEN <<>>
    ELSE IF p = 0 THEN <<>>
    ELSE IF ~(TruthyNum(evs[p].latitude) /\ TruthyNum(evs[p].longitude)) THEN <<>>
    ELSE LET distance == calculate_distance(evs[p].latitude[1], evs[p].longitude[1],
                                            current_location[1].latitude,
                                            current_location[1].longitude)
             minutes_diff == e.timestamp - evs[p].timestamp
         IN IF /\ distance >= min_distance_km
               /\ minutes_diff * max_realistic_speed < distance * 60
               /\ ~RecentAlert(als, "impossible_travel",
                               e.timestamp - 60 * max_travel_time_hours,
                               FALSE, NoIp, TRUE, e.username)
            THEN <<[rule_name |-> "impossible_travel",
                    severity |-> "Critical",
                    context |-> [username |-> e.username,
                                 previous_ip |-> evs[p].source_ip,
                                 current_ip |-> e.source_ip,
                                 distance_km |-> distance,
                                 time_hours |-> round2_hours(minutes_diff),
                                 previous_timestamp |-> evs[p].timestamp]]>>
            ELSE <<>>

\* check of ImpossibleTravelDetectionRule with current_location and the
\* previous login p (an index of evs, or 0 for none) already chosen.
ImpossibleTravelWith(e, evs, als, current_location, p) ==
    IF e.status # "success" \/ e.event_type # "login" THEN <<>>
    ELSE IF ~Truthy(e.username) \/ e.source_ip = NoIp THEN <<>>
    ELSE IF current_location = <<>> \/ current_location[1].latitude = 0 THEN <<>>
    ELSE IF p = 0 THEN <<>>
    ELSE IF ~(TruthyNum(evs[p].latitude) /\ TruthyNum(evs[p].longitude)) THEN <<>>
    ELSE LET distance == calculate_distance(evs[p].latitude[1], evs[p].longitude[1],
                                            current_location[1].latitude,
                                            current_location[1].longitude)
             minutes_diff == e.timestamp - evs[p].timestamp
         IN \* hours_diff < distance / max_realistic_speed, in minutes
            IF /\ distance >= min_distance_km
               /\ minutes_diff * max_realistic_speed < distance * 60
               /\ ~RecentAlert(als, "impossible_travel",
                               e.timestamp - 60 * max_travel_time_hours,
                               FALSE, NoIp, TRUE, e.username)
            THEN <<[rule_name |-> "impossible_travel",
                    severity |-> "Critical",
                    context |-> [username |-> e.username,
                                 previous_ip |-> evs[p].source_ip,
                                 current_ip |-> e.source_ip,
                                 distance_km |-> distance,
                                 time_hours |-> round2_hours(minutes_diff),
                                 previous_timestamp |-> evs[p].timestamp]]>>
            ELSE <<>>

\* The results ImpossibleTravelDetectionRule.check may give: one for each
\* row .first() may pick among equally recent ones.
ImpossibleTravelCheck(e, evs, als, current_location) ==
    IF PreviousLogins(e, evs) = {}
    THEN {ImpossibleTravelWith(e, evs, als, current_location, 0)}
    ELSE {ImpossibleTravelWith(e, evs, als, current_location, p) :
              p \in PreviousLogins(e, evs)}

BusinessHoursCheck(e, als) ==
    IF e.status # "success" \/ e.event_type # "login" THEN <<>>
    ELSE IF is_business_hours(e.timestamp, business_hours_start, business_hours_end)
         THEN <<>>
    ELSE IF Weekday(e.timestamp) >= 5 THEN <<>>
    ELSE IF ~RecentAlert(als, "login_outside_business_hours", e.timestamp - 60,
                         TRUE, e.source_ip, TRUE, e.username)
         THEN <<[rule_name |-> "login_outside_business_hours",
                 severity |-> "Medium",
                 context |-> [username |-> e.username,
                              source_ip |-> e.source_ip,
                              login_time |-> e.timestamp]]>>
    ELSE <<>>

\* The first keyword of the list that occurs in raw_log ("" when none does).
RECURSIVE FirstKeyword(_, _)
FirstKeyword(keywords, raw_log) ==
    IF keywords = <<>> THEN ""
    ELSE IF InRawLog(Head(keywords), raw_log) THEN Head(keywords)
    ELSE FirstKeyword(Tail(keywords), raw_log)

\* check that runs the dedup query on the event-type branch too.
PrivilegeEscalationCheck_Dedup(e, als) ==
    IF /\ e.event_type \in {"privilege_escalation", "admin_access", "sudo", "su"}
       /\ ~RecentAlert(als, "privilege_escalation", e.timestamp - 30,
                       FALSE, NoIp, TRUE, e.username)
    THEN <<[rule_name |-> "privilege_escalation",
            severity |-> "High",
            context |-> [username |-> e.username,
                         source_ip |-> e.source_ip,
                         event_type |-> e.event_type,
                         status |-> e.status]]>>
    ELSE <<>>

PrivilegeEscalationCheck(e, als) ==
    IF e.event_type \in {"privilege_escalation", "admin_access", "sudo", "su"}
    THEN <<[rule_name |-> "privilege_escalation",
            severity |-> "High",
            context |-> [username |-> e.username,
                         source_ip |-> e.source_ip,
                         event_type |-> e.event_type,
                         status |-> e.status]]>>
    ELSE IF e.raw_log # <<>> /\ FirstKeyword(escalation_keywords, e.raw_log) # ""
    THEN IF ~RecentAlert(als, "privilege_escalation", e.timestamp - 30,
                         FALSE, NoIp, TRUE, e.username)
         THEN <<[rule_name |-> "privilege_escalation",
                 severity |-> "High",
                 context |-> [username |-> e.username,
                              source_ip |-> e.source_ip,
                              keyword |-> FirstKeyword(escalation_keywords, e.raw_log),
                              event_type |-> e.event_type,
                              status |-> e.status]]>>
         ELSE <<>>
    ELSE <<>>

\* check that looks at failed events only.
BlacklistIPCheck_FailedOnly(e, als) ==
    IF e.source_ip = NoIp \/ e.status # "failed" THEN <<>>
    ELSE IF e.source_ip \in blacklist
            /\ ~RecentAlert(als, "blacklisted_ip", e.timestamp - 60,
                            TRUE, e.source_ip, FALSE, None)
    THEN <<[rule_name |-> "blacklisted_ip",
            severity |-> "Critical",
            context |-> [source_ip |-> e.source_ip,
                         username |-> e.username,
                         event_type |-> e.event_type,
                         status |-> e.status,
                         country_code |-> e.country_code]]>>
    ELSE <<>>

BlacklistIPCheck(e, als) ==
    IF e.source_ip = NoIp THEN <<>>
    ELSE IF e.source_ip \in blacklist
            /\ ~RecentAlert(als, "blacklisted_ip", e.timestamp - 60,
                            TRUE, e.source_ip, FALSE, None)
    THEN <<[rule_name |-> "blacklisted_ip",
            severity |-> "Critical",
            context |-> [source_ip |-> e.source_ip,
                         username |-> e.username,
                         event_type |-> e.event_type,
                         status |-> e.status,
                         country_code |-> e.country_code]]>>
    ELSE <<>>

\* DetectionEngine.rules, by rule_name, in the order of the list.
rules ==
    <<"brute_force_login", "impossible_travel", "login_outside_business_hours",
      "privilege_escalation", "blacklisted_ip">>

\* Whether the check of the rule gets as far as a db.query for e, where the
\* database may raise; loc is what get_location gave the impossible-travel rule.
ReachesQuery(rule_name, e, loc) ==
    CASE rule_name = "brute_force_login" ->
            e.status = "failed" /\ e.event_type = "login" /\ e.source_ip # NoIp
      [] rule_name = "impossible_travel" ->
            /\ e.status = "success" /\ e.event_type = "login"
            /\ Truthy(e.username) /\ e.source_ip # NoIp
            /\ loc # <<>> /\ loc[1].latitude # 0
      [] rule_name = "login_outside_business_hours" ->
            /\ e.status = "success" /\ e.event_type = "login"
            /\ ~is_business_hours(e.timestamp, business_hours_start, business_hours_end)
            /\ Weekday(e.timestamp) < 5
      [] rule_name = "privilege_escalation" ->
            /\ e.event_type \notin {"privilege_escalation", "admin_access", "sudo", "su"}
            /\ e.raw_log # <<>>
            /\ FirstKeyword(escalation_keywords, e.raw_log) # ""
      [] rule_name = "blacklisted_ip" ->
            e.source_ip # NoIp /\ e.source_ip \in blacklist
      [] OTHER -> FALSE

\* analyze whose loop ends at the first rule that raises.
analyze_at_Abort(e, evs, als, raised, loc) ==
    LET Stopped(k) == \E j \in 1..k : rules[j] \in raised /\ ReachesQuery(rules[j], e, loc)
        Kept(k, result) == IF Stopped(k) THEN <<>> ELSE result
    IN {Kept(1, BruteForceCheck(e, evs, als)) \o Kept(2, it)
          \o Kept(3, BusinessHoursCheck(e, als))
          \o Kept(4, PrivilegeEscalationCheck(e, als))
          \o Kept(5, BlacklistIPCheck(e, als)) :
            it \in ImpossibleTravelCheck(e, evs, als, loc)}

\* analyze that walks the list of rules from its end.
analyze_at_Reversed(e, evs, als, raised, loc) ==
    LET Kept(k, result) ==
            IF rules[k] \in raised /\ ReachesQuery(rules[k], e, loc)
            THEN <<>> ELSE result
    IN {Kept(5, BlacklistIPCheck(e, als))
          \o Kept(4, PrivilegeEscalationCheck(e, als))
          \o Kept(3, BusinessHoursCheck(e, als))
          \o Kept(2, it) \o Kept(1, BruteForceCheck(e, evs, als)) :
            it \in ImpossibleTravelCheck(e, evs, als, loc)}

\* DetectionEngine.analyze when the queries of the rules in raised raise and
\* get_location gives loc: the except clause drops the result of such a rule
\* and the loop goes on with the next one.
analyze_at(e, evs, als, raised, loc) ==
    LET Kept(k, result) ==
            IF rules[k] \in raised /\ ReachesQuery(rules[k], e, loc)
            THEN <<>> ELSE result
    IN {Kept(1, BruteForceCheck(e, evs, als)) \o Kept(2, it)
          \o Kept(3, BusinessHoursCheck(e, als))
          \o Kept(4, PrivilegeEscalationCheck(e, als))
          \o Kept(5, BlacklistIPCheck(e, als)) :
            it \in ImpossibleTravelCheck(e, evs, als, loc)}

\* DetectionEngine.analyze when no rule raises: the lists of alert
\* specifications it may return for e, the rules run in their fixed order
\* against the rows evs and alerts als.
analyze(e, evs, als) ==
    UNION {analyze_at(e, evs, als, {}, loc) : loc \in get_location(e.source_ip)}

----------------------------------------------------------------------------
(* Log parser (backend/app/parsing/log_parser.py)                          *)

\* The templates of PATTERNS in the order of the dict.
PATTERNS_SimpleFirst ==
    <<"simple_log", "apache_access", "ssh_auth", "auth_log", "windows_event",
      "json_log">>

PATTERNS ==
    <<"apache_access", "ssh_auth", "auth_log", "windows_event", "json_log",
      "simple_log">>

\* The named groups of each template.
GroupNames(pattern_name) ==
    CASE pattern_name = "apache_access" -> {"ip", "timestamp", "path"}
      [] pattern_name = "ssh_auth" -> {"timestamp", "event", "source_ip", "username"}
      [] pattern_name = "simple_log" ->
            {"timestamp", "source_ip", "username", "event_type", "status"}
      [] OTHER -> {"timestamp", "source_ip", "username", "status"}

\* What a template captures on a line: the text of its groups (a group the
\* template does not have is left empty).
Groups(ip, ts, source_ip, user, event, event_type, status) ==
    [ip |-> ip, timestamp |-> ts, source_ip |-> source_ip, username |-> user,
     event |-> event, event_type |-> event_type, status |-> status]

\* A log line is modelled by what the regular expressions find in it: groups
\* maps each template that matches the line to what it captures, ipv4 is the
\* first dotted quad of the line (NoIp when it has none), and words are the
\* words of the stripped line, which make up raw_log (none: a blank line).
ApacheLine(ip, ts) ==
    [groups |-> [n \in {"apache_access"} |-> Groups(ip, ts, NoIp, "", "", "", "")],
     ipv4 |-> ip, words |-> <<"GET", "index">>]

SimpleLine(ts, ip, user, event_type, status) ==
    [groups |-> [n \in {"simple_log"} |-> Groups(NoIp, ts, ip, user, "", event_type, status)],
     ipv4 |-> ip, words |-> <<user, event_type, status>>]

SshLine(ts, ip, user, event) ==
    [groups |-> [n \in {"ssh_auth"} |-> Groups(NoIp, ts, ip, user, event, "", "")],
     ipv4 |-> ip, words |-> <<event, "password", "for", "user", user>>]

AuthLine(ts, ip, user, status) ==
    [groups |-> [n \in {"auth_log"} |-> Groups(NoIp, ts, ip, user, "", "", status)],
     ipv4 |-> ip, words |-> <<"user", user, status>>]

\* 'ts Source IP: ip User: user Status: status'. The generic auth template
\* matches it too, with the same captures, when the status is one of its words.
WindowsLine(ts, ip, user, status) ==
    [groups |-> [n \in IF Lower(status) \in {"success", "failed", "denied",
                                               "accepted", "rejected"}
                       THEN {"auth_log", "windows_event"} ELSE {"windows_event"} |->
                    Groups(NoIp, ts, ip, user, "", "", status)],
     ipv4 |-> ip, words |-> <<"Source", "IP", "User", user, "Status", status>>]

JsonLine(ts, ip, user, status) ==
    [groups |-> [n \in {"json_log"} |-> Groups(NoIp, ts, ip, user, "", "", status)],
     ipv4 |-> ip, words |-> <<"timestamp", "ip", "user", user, "status", status>>]

\* A line 'timestamp ip xuser event_type status' whose username ends in
\* "user": simple_log captures it as written, and auth_log finds "user", takes
\* the word after it for the username and the last word for the status.
SimpleUserLine(ts, ip, user, event_type, status) ==
    [groups |-> [n \in {"auth_log", "simple_log"} |->
                    IF n = "auth_log"
                    THEN Groups(NoIp, ts, ip, event_type, "", "", status)
                    ELSE Groups(NoIp, ts, ip, user, "", event_type, status)],
     ipv4 |-> ip, words |-> <<user, event_type, status>>]

FallbackLine(ip) ==
    [groups |-> [n \in {} |-> 0], ipv4 |-> ip, words |-> <<"connection">>]

GarbageLine ==
    [groups |-> [n \in {} |-> 0], ipv4 |-> NoIp, words |-> <<"garbage">>]

BlankLine ==
    [groups |-> [n \in {} |-> 0], ipv4 |-> NoIp, words |-> <<>>]

\* The loop over PATTERNS.items() from the k-th template on: the index of
\* the first template that matches the line, 0 when none does.
RECURSIVE FirstMatch(_, _)
FirstMatch(line, k) ==
    IF k > Len(PATTERNS) THEN 0
    ELSE IF PATTERNS[k] \in DOMAIN line.groups THEN k
    ELSE FirstMatch(line, k + 1)

\* _extract_fields: the dict of the first matching template after the event
\* normalisation, or of the IPv4 search; has is the set of its keys. <<>>
\* stands for None.
_extract_fields(line) ==
    LET k == FirstMatch(line, 1)
    IN IF k # 0
       THEN LET data == line.groups[PATTERNS[k]]
                keys == GroupNames(PATTERNS[k])
                normalise == "event" \in keys /\ "event_type" \notin keys
                event_value == Lower(data.event)
                ok == normalise /\ event_value \in {"accepted", "success"}
                ko == normalise /\ event_value \in {"failed", "denied", "rejected"}
            IN <<[has |-> keys \cup (IF normalise THEN {"event_type"} ELSE {})
                               \cup (IF ok \/ ko THEN {"status"} ELSE {}),
                  ip |-> data.ip,
                  timestamp |-> data.timestamp,
                  source_ip |-> data.source_ip,
                  username |-> data.username,
                  event |-> data.event,
                  event_type |-> IF ok \/ ko THEN "login"
                                 ELSE IF normalise THEN event_value
                                 ELSE data.event_type,
                  status |-> IF ok THEN "success" ELSE IF ko THEN "failed"
                             ELSE data.status]>>
       ELSE IF line.ipv4 # NoIp
       THEN <<[has |-> {"source_ip", "timestamp", "username", "event_type", "status"},
               ip |-> NoIp, timestamp |-> TsNow, source_ip |-> line.ipv4,
               username |-> "", event |-> "", event_type |-> "unknown",
               status |-> "unknown"]>>
       ELSE <<>>

\* Whether parse_line raises on the line: parse_timestamp lets the
\* OverflowError of datetime.fromtimestamp through.
ParseLineRaises(line) ==
    /\ line.words # <<>>
    /\ _extract_fields(line) # <<>>
    /\ "timestamp" \in _extract_fields(line)[1].has
    /\ ParseTimestampRaises(_extract_fields(line)[1].timestamp)

\* parse_line with login, not authentication, as the event_type of a line
\* whose template captures neither event nor event_type.
parse_line_Login(line, t, loc) ==
    IF line.words = <<>> \/ _extract_fields(line) = <<>> THEN <<>>
    ELSE LET parsed_data == _extract_fields(line)[1]
             parsed == IF "timestamp" \in parsed_data.has
                       THEN parse_timestamp_at(parsed_data.timestamp, t) ELSE NoTime
             timestamp == IF parsed = NoTime THEN t ELSE parsed
             source_ip == IF "source_ip" \in parsed_data.has
                          THEN parsed_data.source_ip ELSE NoIp
             username == IF "username" \in parsed_data.has
                         THEN parsed_data.username ELSE ""
             event_type == IF "event_type" \in parsed_data.has THEN parsed_data.event_type
                           ELSE IF "event" \in parsed_data.has THEN parsed_data.event
                           ELSE "login"
             status == IF "status" \in parsed_data.has THEN parsed_data.status
                       ELSE "unknown"
         IN <<LogEntry(timestamp, source_ip, username, Lower(event_type),
                       Lower(status), line.words,
                       IF source_ip # NoIp THEN loc ELSE <<>>)>>

\* parse_line at wall-clock time t with loc what get_location returned:
\* <<entry>>, or <<>> for None.
parse_line(line, t, loc) ==
    IF line.words = <<>> \/ _extract_fields(line) = <<>> THEN <<>>
    ELSE LET parsed_data == _extract_fields(line)[1]
             parsed == IF "timestamp" \in parsed_data.has
                       THEN parse_timestamp_at(parsed_data.timestamp, t) ELSE NoTime
             timestamp == IF parsed = NoTime THEN t ELSE parsed
             source_ip == IF "source_ip" \in parsed_data.has
                          THEN parsed_data.source_ip ELSE NoIp
             username == IF "username" \in parsed_data.has
                         THEN parsed_data.username ELSE ""
             event_type == IF "event_type" \in parsed_data.has THEN parsed_data.event_type
                           ELSE IF "event" \in parsed_data.has THEN parsed_data.event
                           ELSE "authentication"
             status == IF "status" \in parsed_data.has THEN parsed_data.status
                       ELSE "unknown"
         IN <<LogEntry(timestamp, source_ip, username, Lower(event_type),
                       Lower(status), line.words,
                       IF source_ip # NoIp THEN loc ELSE <<>>)>>

\* The locations get_location may return inside parse_line for the line.
LineLocations(line) ==
    IF line.words = <<>> \/ _extract_fields(line) = <<>> THEN {<<>>}
    ELSE IF "source_ip" \in _extract_fields(line)[1].has
            /\ _extract_fields(line)[1].source_ip # NoIp
         THEN get_location(_extract_fields(line)[1].source_ip)
    ELSE {<<>>}

\* parse_file at time t: the lists of entries it may return. A line on which
\* parse_line raises is reported and skipped; None is skipped.
RECURSIVE parse_file(_, _)
parse_file(lines, t) ==
    IF lines = <<>> THEN {<<>>}
    ELSE IF ParseLineRaises(Head(lines)) THEN parse_file(Tail(lines), t)
    ELSE {parse_line(Head(lines), t, loc) \o rest :
             loc \in LineLocations(Head(lines)), rest \in parse_file(Tail(lines), t)}

----------------------------------------------------------------------------
(* Alert manager (api/app/alerting/alert_manager.py)                       *)

\* json.dumps(context) if context else None: the stored text is a sequence
\* holding the bag, and NULL is the empty sequence.
json_dumps_or_None(context) == IF DOMAIN context = {} THEN <<>> ELSE <<context>>

\* create_alert that stamps the alert with the time of its event.
create_alert_EventTime(spec, log_entry, alert_id, t) ==
    [alert_id |-> alert_id,
     rule_name |-> spec.rule_name,
     severity |-> spec.severity,
     context |-> json_dumps_or_None(spec.context),
     source_ip |-> log_entry.source_ip,
     username |-> log_entry.username,
     log_entry_id |-> log_entry.id,
     triggered_at |-> log_entry.timestamp,
     acknowledged |-> FALSE,
     acknowledged_by |-> None,
     acknowledged_at |-> NoTime,
     resolved |-> FALSE,
     resolved_by |-> None,
     resolved_at |-> NoTime,
     notes |-> None]

\* The Alert row create_alert builds at wall-clock time t for the alert
\* specification spec and its log entry; alert_id stands for the fresh UUID.
create_alert(spec, log_entry, alert_id, t) ==
    [alert_id |-> alert_id,
     rule_name |-> spec.rule_name,
     severity |-> spec.severity,
     context |-> json_dumps_or_None(spec.context),
     source_ip |-> log_entry.source_ip,
     username |-> log_entry.username,
     log_entry_id |-> log_entry.id,
     triggered_at |-> t,
     acknowledged |-> FALSE,
     acknowledged_by |-> None,
     acknowledged_at |-> NoTime,
     resolved |-> FALSE,
     resolved_by |-> None,
     resolved_at |-> NoTime,
     notes |-> None]

\* acknowledge that reopens the alert.
acknowledge_alert_Reopens(alert, analyst, t) ==
    [alert EXCEPT !.acknowledged = TRUE,
                  !.acknowledged_by = Or(analyst, "System"),
                  !.acknowledged_at = t,
                  !.resolved = FALSE]

\* The row after acknowledge at time t.
acknowledge_alert(alert, analyst, t) ==
    [alert EXCEPT !.acknowledged = TRUE,
                  !.acknowledged_by = Or(analyst, "System"),
                  !.acknowledged_at = t]

\* resolve that fills acknowledged_by and acknowledged_at every time.
resolve_alert_Refill(alert, analyst, t1, t2) ==
    [alert EXCEPT !.resolved = TRUE,
                  !.acknowledged = TRUE,
                  !.resolved_by = Or(analyst, "System"),
                  !.resolved_at = t1,
                  !.acknowledged_at = t2,
                  !.acknowledged_by = Or(analyst, "System")]

\* resolve that leaves the acknowledged flag alone.
resolve_alert_NoAck(alert, analyst, t1, t2) ==
    [alert EXCEPT !.resolved = TRUE,
                  !.resolved_by = Or(analyst, "System"),
                  !.resolved_at = t1]

\* The row after resolve: resolved_at is read from the clock at t1, and
\* acknowledged_at, when it is not set yet, by a later call at t2.
resolve_alert(alert, analyst, t1, t2) ==
    [alert EXCEPT !.resolved = TRUE,
                  !.acknowledged = TRUE,
                  !.resolved_by = Or(analyst, "System"),
                  !.resolved_at = t1,
                  !.acknowledged_at = IF alert.acknowledged_at = NoTime
                                      THEN t2 ELSE alert.acknowledged_at,
                  !.acknowledged_by = IF alert.acknowledged_at = NoTime
                                      THEN Or(analyst, "System")
                                      ELSE alert.acknowledged_by]

update_alert_notes(alert, notes) == [alert EXCEPT !.notes = notes]

\* The keys of stats that name a severity.
StatsSeverities == {"Critical", "High", "Medium", "Low"}

\* The rows of the grouped query: the unresolved alerts of severity sev.
SeverityGroup(als, sev) ==
    {i \in DOMAIN als : als[i].severity = sev /\ als[i].resolved = FALSE}

\* stats["total"] after the loop over the groups that still have to be added.
RECURSIVE StatsTotal(_, _)
StatsTotal(als, groups) ==
    IF groups = {} THEN 0
    ELSE LET sev == CHOOSE g \in groups : TRUE
         IN (IF sev \in StatsSeverities THEN Cardinality(SeverityGroup(als, sev)) ELSE 0)
            + StatsTotal(als, groups \ {sev})

\* get_alert_statistics that counts the resolved alerts too.
get_alert_statistics_All(als) ==
    [key \in StatsSeverities \cup {"total"} |->
        IF key = "total" THEN Len(als)
        ELSE Cardinality({i \in DOMAIN als : als[i].severity = key})]

\* get_alert_statistics: the groups of the query are the severities of the
\* unresolved alerts; a group whose severity is a key of stats sets that key
\* and is added to total.
get_alert_statistics(als) ==
    LET groups == {als[i].severity : i \in {j \in DOMAIN als : als[j].resolved = FALSE}}
    IN [key \in StatsSeverities \cup {"total"} |->
           IF key = "total" THEN StatsTotal(als, groups)
           ELSE IF key \in groups THEN Cardinality(SeverityGroup(als, key))
           ELSE 0]

----------------------------------------------------------------------------
(* Bounds and inputs                                                       *)

\* Rows the log store may hold, lines a batch may have, lifecycle requests served.
MaxEvents == 3
MaxBruteEvents == 6
MaxBatch == 2
MaxBatchEvents == 3
MaxCalls == 2
MaxGeoEvents == 2
MaxRequests == 2

\* Wednesday 10:00 of the reference week, inside business hours.
T0 == 2 * MinutesPerDay + 10 * 60

\* A wall-clock time long after every event timestamp (ingest of old logs).
Late == T0 + 100000

Analysts == {None, "carol"}

----------------------------------------------------------------------------
(* State machine                                                           *)

NoRequest ==
    [path |-> "none", outcome |-> "none", lines |-> <<>>, events0 |-> 0,
     alerts0 |-> 0, ingested |-> 0, alerts_generated |-> 0, geo |-> <<>>,
     target |-> 0]

\* The request as it starts: lines is the batch it was given, events0 and
\* alerts0 the sizes of the committed tables, geo the call of get_location
\* the request made for its entry, where the specification follows it.
NewRequest(path, lines) ==
    [path |-> path, outcome |-> "running", lines |-> lines,
     events0 |-> Len(log_entries), alerts0 |-> Len(alerts),
     ingested |-> 0, alerts_generated |-> 0, geo |-> <<>>, target |-> 0]

NoDetection ==
    [n |-> 0, entry |-> <<>>, detected |-> <<>>, raised |-> {}, loc |-> <<>>]

\* db.add(log_entry); db.flush(): the row gets the next id.
Flushed(e0) == [e0 EXCEPT !.id = Len(Visible) + 1]

\* create_alert for the first n of the specifications det, in order.
CreatedAlerts(det, e, n) ==
    [k \in 1..n |-> create_alert(det[k], e, Len(alerts) + k, now)]

\* The pass with analyze run before the entry is flushed.
ProcessEntry_DetectBeforeFlush(e0, r) ==
    LET e == Flushed(e0)
    IN \E loc \in get_location(e.source_ip) :
       \E det \in analyze_at(e, Visible, alerts, {}, loc) :
          /\ alerts' = alerts \o CreatedAlerts(det, e, Len(det))
          /\ IF det = <<>>
             THEN session' = session \o <<e>> /\ UNCHANGED log_entries
             ELSE log_entries' = Visible \o <<e>> /\ session' = <<>>
          /\ last' = [n |-> 1 - last.n, entry |-> <<e>>, detected |-> det,
                      raised |-> {}, loc |-> loc]
          /\ req' = [r EXCEPT !.ingested = @ + 1,
                              !.alerts_generated = @ + Len(det)]

\* One pass of the loop body shared by the three ingestion paths: add and
\* flush the entry, analyze it, create_alert for each specification returned.
\* create_alert commits the session, and with it every row flushed so far.
ProcessEntry(e0, r) ==
    LET e == Flushed(e0)
    IN \E loc \in get_location(e.source_ip) :
       \E det \in analyze_at(e, Visible \o <<e>>, alerts, {}, loc) :
          /\ alerts' = alerts \o CreatedAlerts(det, e, Len(det))
          /\ IF det = <<>>
             THEN session' = session \o <<e>> /\ UNCHANGED log_entries
             ELSE log_entries' = Visible \o <<e>> /\ session' = <<>>
          /\ last' = [n |-> 1 - last.n, entry |-> <<e>>, detected |-> det,
                      raised |-> {}, loc |-> loc]
          /\ req' = [r EXCEPT !.ingested = @ + 1,
                              !.alerts_generated = @ + Len(det)]

\* The same pass when the queries of the rules in raised raise inside analyze.
ProcessEntryRaising(e0, r, raised) ==
    LET e == Flushed(e0)
    IN \E loc \in get_location(e.source_ip) :
          /\ \A q \in raised : ReachesQuery(q, e, loc)
          /\ \E det \in analyze_at(e, Visible \o <<e>>, alerts, raised, loc) :
                /\ alerts' = alerts \o CreatedAlerts(det, e, Len(det))
                /\ IF det = <<>>
                   THEN session' = session \o <<e>> /\ UNCHANGED log_entries
                   ELSE log_entries' = Visible \o <<e>> /\ session' = <<>>
                /\ last' = [n |-> 1 - last.n, entry |-> <<e>>, detected |-> det,
                            raised |-> raised, loc |-> loc]
                /\ req' = [r EXCEPT !.ingested = @ + 1,
                                    !.alerts_generated = @ + Len(det)]

\* The same pass when the commit inside the k-th create_alert raises: the
\* earlier commits stand, the rest of the session is rolled back and the
\* exception leaves the request.
ProcessEntryCommitFails(e0) ==
    LET e == Flushed(e0)
    IN \E det \in analyze(e, Visible \o <<e>>, alerts) :
       \E k \in 1..Len(det) :
          /\ alerts' = alerts \o CreatedAlerts(det, e, k - 1)
          /\ log_entries' = IF k > 1 THEN Visible \o <<e>> ELSE log_entries
          /\ session' = <<>>
          /\ req' = [req EXCEPT !.outcome = "storage_failure"]
          /\ UNCHANGED last

\* The transaction of the request is rolled back: its flushed rows are lost.
Rollback(outcome) ==
    /\ session' = <<>>
    /\ req' = [req EXCEPT !.outcome = outcome]
    /\ UNCHANGED <<log_entries, alerts, last>>

\* LogEntry(...) of ingest_single_log at time t: event_type and status are
\* stored as given.
SingleEntry(d, t, loc) ==
    LET parsed == IF d.timestamp.kind = "none" THEN NoTime
                  ELSE parse_timestamp(d.timestamp)
    IN LogEntry(IF parsed = NoTime THEN t ELSE parsed, d.source_ip, d.username,
                d.event_type, d.status, d.raw_log,
                IF d.source_ip # NoIp THEN loc ELSE <<>>)

\* ingest_single_log up to the LogEntry it builds.
StartSingle(D, max) ==
    /\ pc = "idle"
    /\ Len(log_entries) < max
    /\ \E d \in D :
         /\ ~ParseTimestampRaises(d.timestamp)
         /\ \E loc \in get_location(d.source_ip) :
               queue' = <<SingleEntry(d, now, loc)>>
    /\ pc' = "single"
    /\ req' = NewRequest("single", <<>>)
    /\ UNCHANGED <<now, log_entries, alerts, session, last, calls>>

\* ingest_single_log up to the LogEntry it builds, with its call of
\* get_location followed: none is made for an empty source_ip.
StartSingleGeo(D, max) ==
    /\ pc = "idle"
    /\ Len(log_entries) < max
    /\ \E d \in D :
         /\ ~ParseTimestampRaises(d.timestamp)
         /\ IF d.source_ip = NoIp
            THEN /\ queue' = <<SingleEntry(d, now, <<>>)>>
                 /\ req' = NewRequest("single", <<>>)
            ELSE \E c \in get_location_calls(d.source_ip) :
                    /\ ~c.raises
                    /\ queue' = <<SingleEntry(d, now, c.value)>>
                    /\ req' = [NewRequest("single", <<>>) EXCEPT !.geo = <<c>>]
    /\ pc' = "single"
    /\ UNCHANGED <<now, log_entries, alerts, session, last, calls>>

\* ingest_single_log when its call of get_location raises: the exception
\* leaves the request before anything was added.
SingleGeoRaises(D) ==
    /\ pc = "idle"
    /\ \E d \in D :
         /\ ~ParseTimestampRaises(d.timestamp)
         /\ d.source_ip # NoIp
         /\ \E c \in get_location_calls(d.source_ip) :
               /\ c.raises
               /\ req' = [NewRequest("single", <<>>) EXCEPT !.outcome = "exception",
                                                          !.geo = <<c>>]
    /\ UNCHANGED <<now, log_entries, alerts, session, queue, pc, last, calls>>

\* ingest_single_log when parse_timestamp raises: nothing was added yet.
SingleRaises(D) ==
    /\ pc = "idle"
    /\ \E d \in D : ParseTimestampRaises(d.timestamp)
    /\ req' = [NewRequest("single", <<>>) EXCEPT !.outcome = "exception"]
    /\ UNCHANGED <<now, log_entries, alerts, session, queue, pc, last, calls>>

\* ingest_logs_from_text is called with the lines.
StartText(L, max) ==
    /\ pc = "idle"
    /\ \E lines \in L :
         /\ Len(log_entries) + Len(lines) <= max
         /\ queue' = lines
         /\ req' = NewRequest("text", lines)
    /\ pc' = "text"
    /\ UNCHANGED <<now, log_entries, alerts, session, last, calls>>

\* ingest_logs_from_file: parse_file reads and parses the whole file first.
StartFile(L, max) ==
    /\ pc = "idle"
    /\ \E lines \in L :
         /\ Len(log_entries) + Len(lines) <= max
         /\ queue' \in parse_file(lines, now)
         /\ req' = NewRequest("file", lines)
    /\ pc' = "file"
    /\ UNCHANGED <<now, log_entries, alerts, session, last, calls>>

\* The entries the next pass of the loop may work on: parse_line of the next
\* line (text), or the next parsed entry (file, single). Empty when the line
\* is skipped or raises.
NextEntries ==
    IF queue = <<>> THEN {}
    ELSE IF pc = "text"
         THEN IF ParseLineRaises(Head(queue)) THEN {}
              ELSE {parse_line(Head(queue), now, loc)[1] :
                       loc \in {l \in LineLocations(Head(queue)) :
                                   parse_line(Head(queue), now, l) # <<>>}}
    ELSE {Head(queue)}

\* continue that counts the skipped line as ingested.
SkipLine_Counted ==
    /\ pc = "text" /\ queue # <<>>
    /\ ~ParseLineRaises(Head(queue))
    /\ NextEntries = {}
    /\ queue' = Tail(queue)
    /\ req' = [req EXCEPT !.ingested = @ + 1]
    /\ UNCHANGED <<now, log_entries, alerts, session, pc, last, calls>>

\* A blank or unparseable line of ingest_logs_from_text: continue.
SkipLine ==
    /\ pc = "text" /\ queue # <<>>
    /\ ~ParseLineRaises(Head(queue))
    /\ NextEntries = {}
    /\ queue' = Tail(queue)
    /\ UNCHANGED <<now, log_entries, alerts, session, pc, req, last, calls>>

\* parse_line raises inside ingest_logs_from_text, which does not catch it.
LineRaises ==
    /\ pc = "text" /\ queue # <<>>
    /\ ParseLineRaises(Head(queue))
    /\ pc' = "idle"
    /\ queue' = <<>>
    /\ Rollback("exception")
    /\ UNCHANGED <<now, calls>>

\* One pass of the loop body.
IngestEntry ==
    /\ pc # "idle"
    /\ \E e0 \in NextEntries : ProcessEntry(e0, req)
    /\ queue' = Tail(queue)
    /\ UNCHANGED <<now, pc, calls>>

\* One pass of the loop body in which rules raise inside analyze.
IngestEntryRuleRaises ==
    /\ pc # "idle"
    /\ \E e0 \in NextEntries :
       \E raised \in SUBSET {rules[k] : k \in DOMAIN rules} \ {{}} :
          ProcessEntryRaising(e0, req, raised)
    /\ queue' = Tail(queue)
    /\ UNCHANGED <<now, pc, calls>>

\* db.flush() raises.
FlushFails ==
    /\ pc # "idle"
    /\ NextEntries # {}
    /\ pc' = "idle"
    /\ queue' = <<>>
    /\ Rollback("storage_failure")
    /\ UNCHANGED <<now, calls>>

\* db.commit() inside create_alert raises.
CreateAlertFails ==
    /\ pc # "idle"
    /\ \E e0 \in NextEntries : ProcessEntryCommitFails(e0)
    /\ pc' = "idle"
    /\ queue' = <<>>
    /\ UNCHANGED <<now, calls>>

\* The db.commit() that ends the request.
Commit ==
    /\ pc # "idle" /\ queue = <<>>
    /\ log_entries' = Visible
    /\ session' = <<>>
    /\ pc' = "idle"
    /\ req' = [req EXCEPT !.outcome = "ok"]
    /\ UNCHANGED <<now, alerts, queue, last, calls>>

\* The db.commit() that ends the request raises.
CommitFails ==
    /\ pc # "idle" /\ queue = <<>>
    /\ session # <<>>
    /\ pc' = "idle"
    /\ Rollback("storage_failure")
    /\ UNCHANGED <<now, queue, calls>>

\* POST /api/alerts/{alert_id}/acknowledge for a stored alert.
Acknowledge ==
    /\ calls < MaxCalls
    /\ calls' = calls + 1
    /\ \E i \in DOMAIN alerts, analyst \in Analysts :
          alerts' = [alerts EXCEPT ![i] = acknowledge_alert(@, analyst, now)]
    /\ UNCHANGED <<now, log_entries, session, queue, pc, req, last>>

\* POST /api/alerts/{alert_id}/resolve for a stored alert; the clock may move
\* between its calls of utcnow().
Resolve(C) ==
    /\ calls < MaxCalls
    /\ calls' = calls + 1
    /\ \E i \in DOMAIN alerts, analyst \in Analysts :
       \E t2 \in {now} \cup {t \in C : t > now /\ \A u \in C : u > now => t <= u} :
          /\ alerts' = [alerts EXCEPT ![i] = resolve_alert(@, analyst, now, t2)]
          /\ now' = t2
    /\ UNCHANGED <<log_entries, session, queue, pc, req, last>>

\* PUT /api/alerts/{alert_id}/notes for a stored alert.
UpdateNotes ==
    /\ calls < MaxCalls
    /\ calls' = calls + 1
    /\ \E i \in DOMAIN alerts :
          alerts' = [alerts EXCEPT ![i] = update_alert_notes(@, "false positive")]
    /\ UNCHANGED <<now, log_entries, session, queue, pc, req, last>>

\* The answer of a route that names a row by its identifier: the route, the
\* identifier it was called with and the status code.
Response(route, id, status) ==
    [NoRequest EXCEPT !.path = route, !.target = id, !.outcome = status]

\* .first() that falls back to the newest row when nothing matches.
FirstAlert_Newest(als, alert_id) ==
    IF \E i \in DOMAIN als : als[i].alert_id = alert_id
    THEN CHOOSE i \in DOMAIN als : als[i].alert_id = alert_id
    ELSE Len(als)

\* db.query(Alert).filter(Alert.alert_id == alert_id).first(): the position
\* of the row, 0 for None.
FirstAlert(als, alert_id) ==
    IF \E i \in DOMAIN als : als[i].alert_id = alert_id
    THEN CHOOSE i \in DOMAIN als : als[i].alert_id = alert_id
    ELSE 0

\* db.query(LogEntry).filter(LogEntry.id == log_id).first()
FirstLog(evs, log_id) ==
    IF \E i \in DOMAIN evs : evs[i].id = log_id
    THEN CHOOSE i \in DOMAIN evs : evs[i].id = log_id
    ELSE 0

\* POST /api/alerts/{alert_id}/acknowledge, the whole route.
AcknowledgeRoute(Ids) ==
    /\ calls < MaxCalls
    /\ calls' = calls + 1
    /\ \E alert_id \in Ids, analyst \in Analysts :
         LET i == FirstAlert(alerts, alert_id)
         IN IF i = 0
            THEN /\ req' = Response("acknowledge", alert_id, "404")
                 /\ UNCHANGED alerts
            ELSE /\ alerts' = [alerts EXCEPT ![i] = acknowledge_alert(@, analyst, now)]
                 /\ req' = Response("acknowledge", alert_id, "200")
    /\ UNCHANGED <<now, log_entries, session, queue, pc, last>>

\* POST /api/alerts/{alert_id}/resolve, the whole route.
ResolveRoute(Ids) ==
    /\ calls < MaxCalls
    /\ calls' = calls + 1
    /\ \E alert_id \in Ids, analyst \in Analysts :
         LET i == FirstAlert(alerts, alert_id)
         IN IF i = 0
            THEN /\ req' = Response("resolve", alert_id, "404")
                 /\ UNCHANGED alerts
            ELSE /\ alerts' = [alerts EXCEPT ![i] = resolve_alert(@, analyst, now, now)]
                 /\ req' = Response("resolve", alert_id, "200")
    /\ UNCHANGED <<now, log_entries, session, queue, pc, last>>

\* PUT /api/alerts/{alert_id}/notes, the whole route.
NotesRoute(Ids) ==
    /\ calls < MaxCalls
    /\ calls' = calls + 1
    /\ \E alert_id \in Ids :
         LET i == FirstAlert(alerts, alert_id)
         IN IF i = 0
            THEN /\ req' = Response("notes", alert_id, "404")
                 /\ UNCHANGED alerts
            ELSE /\ alerts' = [alerts EXCEPT ![i] = update_alert_notes(@, "false positive")]
                 /\ req' = Response("notes", alert_id, "200")
    /\ UNCHANGED <<now, log_entries, session, queue, pc, last>>

\* GET /api/alerts/{alert_id}
AlertDetailRoute(Ids) ==
    /\ calls < MaxCalls
    /\ calls' = calls + 1
    /\ \E alert_id \in Ids :
         req' = Response("alert_detail", alert_id,
                         IF FirstAlert(alerts, alert_id) = 0 THEN "404" ELSE "200")
    /\ UNCHANGED <<now, log_entries, alerts, session, queue, pc, last>>

\* GET /api/logs/{log_id}
LogDetailRoute(Ids) ==
    /\ calls < MaxCalls
    /\ calls' = calls + 1
    /\ \E log_id \in Ids :
         req' = Response("log_detail", log_id,
                         IF FirstLog(log_entries, log_id) = 0 THEN "404" ELSE "200")
    /\ UNCHANGED <<now, log_entries, alerts, session, queue, pc, last>>

\* Time passes.
Tick(C) ==
    /\ \E t \in C : t > now /\ now' = t
    /\ UNCHANGED <<log_entries, alerts, session, queue, pc, req, last, calls>>

Init ==
    /\ now = T0
    /\ log_entries = <<>>
    /\ alerts = <<>>
    /\ session = <<>>
    /\ queue = <<>>
    /\ pc = "idle"
    /\ req = NoRequest
    /\ last = NoDetection
    /\ calls = 0

----------------------------------------------------------------------------
(* Inputs of the specifications                                            *)

Attacker == <<203, 0, 113, 7>>
Listed == <<10, 0, 0, 100>>

\* A request body of POST /api/logs/single (LogEntryRequest.dict()).
LogData(ts, ip, user, event_type, status) ==
    [timestamp |-> ts, source_ip |-> ip, username |-> user,
     event_type |-> event_type, status |-> status, raw_log |-> <<>>]

\* Events from a blacklisted address at T0, 10 and 61 minutes later, and a
\* body whose event_type and status are in upper case.
GeneralInputs ==
    {LogData(TsOk(T0 + m), Listed, "bob", "authentication", "failed") : m \in {0, 10, 61}}
    \cup {LogData([kind |-> "none", t |-> 0], Attacker, "bob", "LOGIN", "FAILED"),
          LogData(TsOverflow, Attacker, "bob", "login", "failed")}

GeneralClock == {T0, T0 + 1, T0 + 61}

Other == <<192, 0, 2, 1>>

FailedLogin(m, user) == LogData(TsOk(T0 + m), Attacker, user, "login", "failed")

\* The n-th request of the brute-force specification. The first three are
\* failed logins of the attacker stamped T0, T0+1 and T0+2; the later ones are
\* failed logins of the attacker stamped 3, 4, 5, 10 or 14 minutes after T0
\* and events that differ from those in one field the rule looks at.
BruteInputs(n) ==
    IF n <= 3
    THEN {FailedLogin(n - 1, "alice")}
    ELSE {FailedLogin(m, "bob") : m \in {3, 4, 5, 10, 14}}
         \cup {LogData(TsOk(T0 + 4), Attacker, "bob", "login", "success"),
               LogData(TsOk(T0 + 4), Attacker, "bob", "authentication", "failed"),
               LogData(TsOk(T0 + 4), Other, "bob", "login", "failed"),
               LogData(TsOk(T0 + 4), NoIp, "bob", "login", "failed")}

\* The clock starts behind the event timestamps (T0 - 5), and may be read
\* long after them.
BruteClock == {T0 - 5, Late}

InitBrute ==
    /\ now = T0 - 5
    /\ log_entries = <<>>
    /\ alerts = <<>>
    /\ session = <<>>
    /\ queue = <<>>
    /\ pc = "idle"
    /\ req = NoRequest
    /\ last = NoDetection
    /\ calls = 0

NextBrute ==
    \/ StartSingle(BruteInputs(Len(log_entries) + 1), MaxBruteEvents)
    \/ IngestEntry
    \/ Commit
    \/ Resolve(BruteClock)
    \/ Tick(BruteClock)

SpecBrute == InitBrute /\ [][NextBrute]_vars

\* Lines of a text batch or an uploaded file: an event from a blacklisted
\* address written in upper case, an ordinary failed login, a line whose
\* timestamp is a number too large for a date, a line no template matches,
\* and a blank line.
BatchLines ==
    {SimpleLine(TsOk(T0), Listed, "bob", "LOGIN", "FAILED"),
     SimpleLine(TsOk(T0 + 1), Attacker, "alice", "login", "failed"),
     SimpleLine(TsOverflow, Attacker, "alice", "login", "failed"),
     GarbageLine,
     BlankLine}

RECURSIVE SeqsUpTo(_, _)
SeqsUpTo(S, n) ==
    IF n = 0 THEN {<<>>}
    ELSE SeqsUpTo(S, n - 1)
         \cup {<<x>> \o s : x \in S, s \in {q \in SeqsUpTo(S, n - 1) : Len(q) = n - 1}}

Batches == SeqsUpTo(BatchLines, MaxBatch) \ {<<>>}

NextBatch ==
    \/ StartText(Batches, MaxBatchEvents)
    \/ StartFile(Batches, MaxBatchEvents)
    \/ SkipLine
    \/ LineRaises
    \/ IngestEntry
    \/ FlushFails
    \/ CreateAlertFails
    \/ Commit
    \/ CommitFails

SpecBatch == Init /\ [][NextBatch]_vars

\* Requests that raise alerts for the analysts to work on: an event from a
\* blacklisted address (one alert), and a successful login from it at 20:00
\* (two alerts: outside business hours, blacklisted).
AlertInputs ==
    {LogData(TsOk(T0), Listed, "bob", "authentication", "failed"),
     LogData(TsOk(T0 + 10 * 60), Listed, "bob", "login", "success")}

AlertClock == {T0, T0 + 1}

NextAlerts ==
    \/ StartSingle(AlertInputs, MaxEvents)
    \/ IngestEntry
    \/ Commit
    \/ Acknowledge
    \/ Resolve(AlertClock)
    \/ UpdateNotes
    \/ Tick(AlertClock)

SpecAlerts == Init /\ [][NextAlerts]_vars

\* The body d with raw_log the tokens raw.
WithRaw(d, raw) == [d EXCEPT !.raw_log = raw]

\* Requests on which several rules query the database: a successful login
\* from a blacklisted address at 20:00 whose raw log names sudo, a failed
\* login from that address, and a sudo event from a public address.
RuleInputs ==
    {WithRaw(LogData(TsOk(T0 + 10 * 60), Listed, "bob", "login", "success"), <<"sudo">>),
     LogData(TsOk(T0), Listed, "bob", "login", "failed"),
     LogData(TsOk(T0), Attacker, "bob", "sudo", "success")}

NextRules ==
    \/ StartSingle(RuleInputs, MaxEvents)
    \/ IngestEntry
    \/ IngestEntryRuleRaises
    \/ Commit

SpecRules == Init /\ [][NextRules]_vars

\* The instant of day d (Monday is 0) at h:m.
At(d, h, m) == d * MinutesPerDay + h * 60 + m

\* Times around the edges of the business day and of the week.
HoursTimes ==
    {At(2, 7, 59), At(2, 8, 0), At(2, 17, 59), At(2, 18, 0), At(4, 23, 0),
     At(0, 0, 0), At(5, 10, 0), At(5, 20, 0), At(6, 3, 0)}

\* Successful logins of one user from one public address at those times, and
\* at 20:00 on Wednesday a failed login and a successful event of another type.
HoursInputs ==
    {LogData(TsOk(t), Attacker, "bob", "login", "success") : t \in HoursTimes}
    \cup {LogData(TsOk(At(2, 20, 0)), Attacker, "bob", "login", "failed"),
          LogData(TsOk(At(2, 20, 0)), Attacker, "bob", "authentication", "success")}

NextHours ==
    \/ StartSingle(HoursInputs, MaxEvents)
    \/ IngestEntry
    \/ Commit

SpecHours == Init /\ [][NextHours]_vars

\* Events of the escalation types, and events of another type whose raw log
\* names a keyword (in either case, or inside the word success) or none,
\* stamped T0, 30 and 31 minutes later.
EscalationInputs ==
    {LogData(TsOk(T0), Attacker, "bob", t, "ok") :
        t \in {"sudo", "su", "admin_access", "privilege_escalation", "SUDO"}}
    \cup {WithRaw(LogData(TsOk(T0 + m), Attacker, "bob", "command", "ok"), <<"run", "SUDO">>) :
             m \in {0, 30, 31}}
    \cup {WithRaw(LogData(TsOk(T0), Attacker, "bob", "command", "ok"), <<"run", "ls">>)}
    \cup {WithRaw(LogData(TsOk(T0), Attacker, u, "command", "ok"), <<w>>) :
             u \in {"eve"}, w \in {"root", "success"}}

EscalationClock == {T0}

NextEscalation ==
    \/ StartSingle(EscalationInputs, MaxEvents)
    \/ IngestEntry
    \/ Commit
    \/ Resolve(EscalationClock)

SpecEscalation == Init /\ [][NextEscalation]_vars

\* The addresses the resolver knows.
SanFranciscoIp == <<198, 51, 100, 10>>
TokyoIp == <<203, 0, 113, 20>>
LosAngelesIp == <<198, 51, 100, 30>>
PontianakIp == <<198, 51, 100, 77>>
GreenwichIp == <<192, 0, 2, 51>>
SeattleIp == <<198, 51, 100, 40>>

\* Logins of alice: from San Francisco at T0; from Tokyo 30 and 61 minutes
\* later; from Los Angeles, from the equator and from an address the resolver
\* does not know 30 minutes later; a failed login and an event of another
\* type from Tokyo; and logins from Tokyo of another user and of no user.
TravelInputs ==
    {LogData(TsOk(T0), SanFranciscoIp, "alice", "login", "success"),
     LogData(TsOk(T0 + 30), TokyoIp, "alice", "login", "success"),
     LogData(TsOk(T0 + 61), TokyoIp, "alice", "login", "success"),
     LogData(TsOk(T0 + 30), LosAngelesIp, "alice", "login", "success"),
     LogData(TsOk(T0 + 30), PontianakIp, "alice", "login", "success"),
     LogData(TsOk(T0 + 30), Attacker, "alice", "login", "success"),
     LogData(TsOk(T0 + 30), TokyoIp, "alice", "login", "failed"),
     LogData(TsOk(T0 + 30), TokyoIp, "alice", "logout", "success"),
     LogData(TsOk(T0 + 30), TokyoIp, "bob", "login", "success"),
     LogData(TsOk(T0 + 30), TokyoIp, "", "login", "success")}

TravelClock == {T0}

NextTravel ==
    \/ StartSingle(TravelInputs, MaxEvents)
    \/ IngestEntry
    \/ Commit
    \/ Resolve(TravelClock)

SpecTravel == Init /\ [][NextTravel]_vars

\* Events from two addresses of the blacklist that differ in event_type,
\* status and username, one of them an hour and a minute later; and events
\* from a private address next to a listed one, from a public address and
\* with no address.
BlacklistInputs ==
    {LogData(TsOk(T0), Listed, "bob", "login", "failed"),
     LogData(TsOk(T0), Listed, None, "logout", "success"),
     LogData(TsOk(T0 + 61), Listed, "eve", "file_access", "denied"),
     LogData(TsOk(T0), <<192, 168, 1, 200>>, "bob", "login", "success"),
     LogData(TsOk(T0), <<10, 0, 0, 101>>, "bob", "login", "failed"),
     LogData(TsOk(T0), Attacker, "bob", "login", "failed"),
     LogData(TsOk(T0), NoIp, "bob", "login", "failed")}

BlacklistClock == {T0}

NextBlacklist ==
    \/ StartSingle(BlacklistInputs, MaxEvents)
    \/ IngestEntry
    \/ Commit
    \/ Resolve(BlacklistClock)

SpecBlacklist == Init /\ [][NextBlacklist]_vars

\* Values of IP_BLACKLIST: the default, entries with blanks around them,
\* empty and blank entries, a comma at either end, one entry holding two
\* addresses, and the empty string.
BlacklistSettings ==
    {ip_blacklist,
     <<Blank, Listed, Blank, Comma, Comma, Blank, Comma, Attacker>>,
     <<Comma, Listed, Blank, Attacker, Comma>>,
     <<Listed, Comma, Blank, Blank, Attacker, Comma, Listed>>,
     <<Blank>>,
     <<>>}

\* A failed login of the attacker stamped T0, sent on its own.
OrderSingles == {FailedLogin(0, "alice")}

\* Lines of a batch: failed logins of the attacker stamped T0 + 2 and T0 + 3,
\* a successful login, and a blank line.
OrderLines ==
    {SimpleLine(TsOk(T0 + 2), Attacker, "bob", "login", "failed"),
     SimpleLine(TsOk(T0 + 3), Attacker, "bob", "login", "failed"),
     SimpleLine(TsOk(T0 + 3), Attacker, "bob", "login", "success"),
     BlankLine}

OrderBatches == SeqsUpTo(OrderLines, MaxBatch) \ {<<>>}

NextOrder ==
    \/ StartSingle(OrderSingles, MaxEvents)
    \/ StartText(OrderBatches, MaxBruteEvents)
    \/ StartFile(OrderBatches, MaxBruteEvents)
    \/ SkipLine
    \/ IngestEntry
    \/ Commit

SpecOrder == Init /\ [][NextOrder]_vars

\* A successful login from a blacklisted address at 20:00, which raises three
\* alerts (outside business hours, the keyword su inside the word success,
\* blacklisted address); a failed login that raises none; a line no template
\* matches; and a blank line.
CountLines ==
    {SimpleLine(TsOk(T0 + 10 * 60), Listed, "bob", "login", "success"),
     SimpleLine(TsOk(T0 + 1), Attacker, "alice", "login", "failed"),
     GarbageLine,
     BlankLine}

CountBatches == SeqsUpTo(CountLines, MaxBatch) \ {<<>>}

NextCount ==
    \/ StartSingle(AlertInputs, MaxBatchEvents)
    \/ StartText(CountBatches, MaxBatchEvents)
    \/ StartFile(CountBatches, MaxBatchEvents)
    \/ SkipLine
    \/ IngestEntry
    \/ FlushFails
    \/ CreateAlertFails
    \/ Commit
    \/ CommitFails

SpecCount == Init /\ [][NextCount]_vars

\* Addresses at the edges of the private ranges, an address the resolver
\* places in San Francisco, one it knows without a country, one it does not
\* know, and no address.
GeoIps ==
    {<<10, 0, 0, 1>>, <<11, 0, 0, 1>>, <<172, 15, 0, 1>>, <<172, 16, 0, 1>>,
     <<172, 31, 255, 1>>, <<172, 32, 0, 1>>, <<192, 168, 1, 1>>, <<192, 167, 1, 1>>,
     <<127, 0, 0, 1>>, <<126, 0, 0, 1>>,
     SanFranciscoIp, <<192, 0, 2, 99>>, Attacker, NoIp}

GeoInputs == {LogData(TsOk(T0), ip, "bob", "logout", "ok") : ip \in GeoIps}

NextGeo ==
    \/ StartSingleGeo(GeoInputs, MaxGeoEvents)
    \/ SingleGeoRaises(GeoInputs)
    \/ IngestEntry
    \/ Commit

SpecGeo == Init /\ [][NextGeo]_vars

\* Identifiers the routes are called with: those of the first rows, and
\* one beyond every stored row.
RouteIds == 1..(MaxEvents + 1)

\* The routes that name an alert or an event, called while the server is
\* between ingest requests or inside one.
NextRoutes ==
    \/ StartSingle(AlertInputs, MaxGeoEvents)
    \/ IngestEntry
    \/ Commit
    \/ AcknowledgeRoute(RouteIds)
    \/ ResolveRoute(RouteIds)
    \/ NotesRoute(RouteIds)
    \/ AlertDetailRoute(RouteIds)
    \/ LogDetailRoute(RouteIds)

SpecRoutes == Init /\ [][NextRoutes]_vars

\* A sudo event (one High alert), a successful login from a blacklisted
\* address at 20:00 (a Medium, a Critical and a High alert), and a plain event.
StatsInputs ==
    {LogData(TsOk(T0), Attacker, "bob", "sudo", "ok"),
     LogData(TsOk(T0 + 10 * 60), Listed, "bob", "login", "success"),
     LogData(TsOk(T0), Attacker, None, "logout", "ok")}

StatsClock == {T0, T0 + 1}

NextStats ==
    \/ StartSingle(StatsInputs, MaxGeoEvents)
    \/ IngestEntry
    \/ Commit
    \/ Resolve(StatsClock)
    \/ Tick(StatsClock)

SpecStats == Init /\ [][NextStats]_vars

\* Logins of alice whose timestamps need not follow the order in which they
\* are ingested: from Tokyo at T0; from Los Angeles 30 minutes later, one
\* successful and one failed; from San Francisco 31, 60 and 61 minutes later;
\* and from Tokyo 31 minutes later.
RecentInputs ==
    {LogData(TsOk(T0), TokyoIp, "alice", "login", "success"),
     LogData(TsOk(T0 + 30), LosAngelesIp, "alice", "login", "success"),
     LogData(TsOk(T0 + 30), LosAngelesIp, "alice", "login", "failed"),
     LogData(TsOk(T0 + 31), SanFranciscoIp, "alice", "login", "success"),
     LogData(TsOk(T0 + 60), SanFranciscoIp, "alice", "login", "success"),
     LogData(TsOk(T0 + 61), SanFranciscoIp, "alice", "login", "success"),
     LogData(TsOk(T0 + 31), TokyoIp, "alice", "login", "success")}

NextRecent ==
    \/ StartSingle(RecentInputs, MaxEvents)
    \/ IngestEntry
    \/ Commit

SpecRecent == Init /\ [][NextRecent]_vars

\* Logins of alice at the edges of the two tests of the rule: from San
\* Francisco at T0; from Seattle (1094 km away) 1, 60 and 90 minutes later;
\* from Los Angeles (559 km away) 30 minutes later; and from Tokyo one minute
\* later.
SpeedInputs ==
    {LogData(TsOk(T0), SanFranciscoIp, "alice", "login", "success"),
     LogData(TsOk(T0 + 1), SeattleIp, "alice", "login", "success"),
     LogData(TsOk(T0 + 60), SeattleIp, "alice", "login", "success"),
     LogData(TsOk(T0 + 90), SeattleIp, "alice", "login", "success"),
     LogData(TsOk(T0 + 30), LosAngelesIp, "alice", "login", "success"),
     LogData(TsOk(T0 + 1), TokyoIp, "alice", "login", "success")}

NextSpeed ==
    \/ StartSingle(SpeedInputs, MaxEvents)
    \/ IngestEntry
    \/ Commit

SpecSpeed == Init /\ [][NextSpeed]_vars

\* Logins of alice from places with a coordinate of 0.0: from San Francisco
\* at T0; from the equator and from the prime meridian 10 and 20 minutes
\* later; and from Tokyo 20 minutes later.
ZeroInputs ==
    {LogData(TsOk(T0), SanFranciscoIp, "alice", "login", "success"),
     LogData(TsOk(T0 + 10), PontianakIp, "alice", "login", "success"),
     LogData(TsOk(T0 + 10), GreenwichIp, "alice", "login", "success"),
     LogData(TsOk(T0 + 20), PontianakIp, "alice", "login", "success"),
     LogData(TsOk(T0 + 20), GreenwichIp, "alice", "login", "success"),
     LogData(TsOk(T0 + 20), TokyoIp, "alice", "login", "success")}

NextZero ==
    \/ StartSingle(ZeroInputs, MaxEvents)
    \/ IngestEntry
    \/ Commit

SpecZero == Init /\ [][NextZero]_vars

\* Events of bob and eve that are not of an escalation type, whose raw logs
\* hold one keyword inside a longer word, two keywords in either order, a
\* keyword in capitals, or none.
KeywordRawLogs ==
    {<<"login", "success">>, <<"root", "admin">>, <<"admin", "root">>,
     <<"root", "success">>, <<"SUCCESS", "sudo">>, <<"admin_access", "ROOT">>,
     <<"run", "ls">>}

KeywordInputs ==
    {WithRaw(LogData(TsOk(T0), Attacker, u, "login", "success"), r) :
        u \in {"bob", "eve"}, r \in KeywordRawLogs}

NextKeyword ==
    \/ StartSingle(KeywordInputs, MaxGeoEvents)
    \/ IngestEntry
    \/ Commit

SpecKeyword == Init /\ [][NextKeyword]_vars

\* The n-th line of the template specification. The first four are failed
\* logins of bob from one address in the simple format, stamped T0 to T0+3;
\* the later ones are a fifth failure from that address in the generic auth,
\* Windows-style, JSON-ish, simple and SSH formats, an access-log line and a
\* line with nothing but the address, a successful login of alice from San
\* Francisco at 19:45 in the simple format, and a success of alice from Tokyo
\* at 20:15 in the generic auth, Windows-style and JSON-ish formats.
TemplateLines(n) ==
    IF n <= 4
    THEN {SimpleLine(TsOk(T0 + n - 1), Attacker, "bob", "login", "failed")}
    ELSE {AuthLine(TsOk(T0 + 4), Attacker, "bob", "FAILED"),
          WindowsLine(TsOk(T0 + 4), Attacker, "bob", "failed"),
          WindowsLine(TsOk(T0 + 4), Attacker, "bob", "locked"),
          JsonLine(TsOk(T0 + 4), Attacker, "bob", "failed"),
          SimpleLine(TsOk(T0 + 4), Attacker, "bob", "login", "failed"),
          SshLine(TsSyslog(T0 + 4), Attacker, "bob", "Failed"),
          ApacheLine(Attacker, TsBad),
          FallbackLine(Attacker),
          SimpleLine(TsOk(T0 + 9 * 60 + 45), SanFranciscoIp, "alice", "login", "success"),
          AuthLine(TsOk(T0 + 10 * 60 + 15), TokyoIp, "alice", "success"),
          WindowsLine(TsOk(T0 + 10 * 60 + 15), TokyoIp, "alice", "success"),
          JsonLine(TsOk(T0 + 10 * 60 + 15), TokyoIp, "alice", "success")}

NextTemplates ==
    \/ StartText({<<l>> : l \in TemplateLines(Len(log_entries) + 1)}, MaxBruteEvents)
    \/ IngestEntry
    \/ Commit

SpecTemplates == Init /\ [][NextTemplates]_vars

\* One line for each template, with the timestamps their regular expressions
\* admit (the bracketed date of an access log has a zone and parses to
\* nothing; an SSH line has no year); a line two templates match; a line with
\* nothing but an address; a line with nothing; and a blank line.
ParseLines ==
    {ApacheLine(Attacker, TsBad),
     SshLine(TsSyslog(T0), Attacker, "bob", "Failed"),
     SshLine(TsSyslog(T0 + 1), Listed, "bob", "Accepted"),
     AuthLine(TsOk(T0), Attacker, "bob", "FAILED"),
     WindowsLine(TsOk(T0), Listed, "bob", "success"),
     WindowsLine(TsOk(T0), Listed, "bob", "locked"),
     JsonLine(TsOk(T0), Attacker, "bob", "failed"),
     SimpleLine(TsOk(T0), Attacker, "bob", "login", "failed"),
     SimpleUserLine(TsOk(T0), Attacker, "superuser", "login", "failed"),
     FallbackLine(Attacker),
     GarbageLine,
     BlankLine}

ParseBatches == SeqsUpTo(ParseLines, MaxBatch) \ {<<>>}

ParseClock == {T0, T0 + 1}

NextParse ==
    \/ StartText(ParseBatches, MaxGeoEvents)
    \/ StartFile(ParseBatches, MaxGeoEvents)
    \/ SkipLine
    \/ IngestEntry
    \/ Commit
    \/ Tick(ParseClock)

SpecParse == Init /\ [][NextParse]_vars

\* The n-th request of the engine specification. The first four are failed
\* logins of bob from a blacklisted address stamped T0 to T0+3; the later
\* ones are a fifth such login whose raw log names sudo, and successful
\* logins of alice at 19:45 from San Francisco and at 20:15 from Tokyo, the
\* second with sudo in its raw log.
EngineInputs(n) ==
    IF n <= 4
    THEN {LogData(TsOk(T0 + n - 1), Listed, "bob", "login", "failed")}
    ELSE {WithRaw(LogData(TsOk(T0 + 4), Listed, "bob", "login", "failed"), <<"sudo">>),
          LogData(TsOk(T0 + 9 * 60 + 45), SanFranciscoIp, "alice", "login", "success"),
          WithRaw(LogData(TsOk(T0 + 10 * 60 + 15), TokyoIp, "alice", "login", "success"),
                  <<"sudo">>)}

EngineClock == {T0}

NextEngine ==
    \/ StartSingle(EngineInputs(Len(log_entries) + 1), MaxBruteEvents)
    \/ IngestEntry
    \/ Commit
    \/ Resolve(EngineClock)

SpecEngine == Init /\ [][NextEngine]_vars

----------------------------------------------------------------------------
(* Concurrent ingest requests                                              *)

\* Each request of Requests has its own session (its own transaction); in
\* this specification session, queue, pc, req and last hold one value per
\* request. A query of a request sees the committed rows and the rows of its
\* own session.
Requests == 1..MaxRequests

RECURSIVE FlushedRows(_)
FlushedRows(R) ==
    IF R = {} THEN 0
    ELSE LET r == CHOOSE q \in R : TRUE
         IN Len(session[r]) + FlushedRows(R \ {r})

\* Batches of POST /api/logs/bulk: events from a blacklisted address, alone
\* or after an event from another address or a blank line.
RaceBatches ==
    {<<SimpleLine(TsOk(T0), Listed, "bob", "login", "failed")>>,
     <<SimpleLine(TsOk(T0 + 1), Listed, "eve", "logout", "ok")>>,
     <<SimpleLine(TsOk(T0), Attacker, "bob", "login", "failed"),
       SimpleLine(TsOk(T0), Listed, "bob", "login", "failed")>>,
     <<BlankLine, SimpleLine(TsOk(T0), Listed, "bob", "login", "failed")>>}

RaceRequest ==
    [path |-> "none", outcome |-> "none", lines |-> <<>>, runs |-> <<>>]

RaceDetection == [entry |-> <<>>, detected |-> <<>>, created |-> 0]

InitRace ==
    /\ now = T0
    /\ log_entries = <<>>
    /\ alerts = <<>>
    /\ session = [r \in Requests |-> <<>>]
    /\ queue = [r \in Requests |-> <<>>]
    /\ pc = [r \in Requests |-> "idle"]
    /\ req = [r \in Requests |-> RaceRequest]
    /\ last = [r \in Requests |-> RaceDetection]
    /\ calls = 0

\* ingest_logs_from_text is called by request r.
RaceStart(r) ==
    /\ pc[r] = "idle"
    /\ \E lines \in RaceBatches :
          /\ queue' = [queue EXCEPT ![r] = lines]
          /\ req' = [req EXCEPT ![r] = [path |-> "text", outcome |-> "running",
                                        lines |-> lines, runs |-> <<>>]]
    /\ pc' = [pc EXCEPT ![r] = "loop"]
    /\ UNCHANGED <<now, log_entries, alerts, session, last, calls>>

\* The entries parse_line may give for the next line of request r.
RaceEntries(r) ==
    IF queue[r] = <<>> \/ ParseLineRaises(Head(queue[r])) THEN {}
    ELSE {parse_line(Head(queue[r]), now, loc)[1] :
             loc \in {l \in LineLocations(Head(queue[r])) :
                         parse_line(Head(queue[r]), now, l) # <<>>}}

\* A blank or unparseable line of request r: continue.
RaceSkip(r) ==
    /\ pc[r] = "loop" /\ queue[r] # <<>>
    /\ ~ParseLineRaises(Head(queue[r]))
    /\ RaceEntries(r) = {}
    /\ queue' = [queue EXCEPT ![r] = Tail(@)]
    /\ UNCHANGED <<now, log_entries, alerts, session, pc, req, last, calls>>

\* db.add(log_entry); db.flush() of request r: the row gets the next id of
\* the table and is visible to r only.
RaceFlush(r) ==
    /\ pc[r] = "loop"
    /\ \E e0 \in RaceEntries(r) :
          LET e == [e0 EXCEPT !.id = Len(log_entries) + FlushedRows(Requests) + 1]
          IN /\ session' = [session EXCEPT ![r] = Append(@, e)]
             /\ last' = [last EXCEPT ![r] = [entry |-> <<e>>, detected |-> <<>>,
                                             created |-> 0]]
    /\ queue' = [queue EXCEPT ![r] = Tail(@)]
    /\ pc' = [pc EXCEPT ![r] = "analyze"]
    /\ UNCHANGED <<now, log_entries, alerts, req, calls>>

\* detection_engine.analyze(log_entry, db) of request r: the queries of the
\* rules read the committed tables and the rows r has flushed. The run is
\* recorded with the number of alerts that were stored when it was made.
RaceAnalyze(r) ==
    /\ pc[r] = "analyze"
    /\ LET e == last[r].entry[1]
       IN \E det \in analyze(e, log_entries \o session[r], alerts) :
             /\ last' = [last EXCEPT ![r].detected = det]
             /\ req' = [req EXCEPT ![r].runs =
                            Append(@, [entry |-> e, alerts_seen |-> Len(alerts),
                                       detected |-> det])]
             /\ pc' = [pc EXCEPT ![r] = IF det = <<>> THEN "loop" ELSE "create"]
    /\ UNCHANGED <<now, log_entries, alerts, session, queue, calls>>

\* create_alert that runs the query of the rule again and stores nothing
\* when an unresolved alert of the rule and address is stored by now.
RaceCreateAlert_Recheck(r) ==
    /\ pc[r] = "create"
    /\ LET e == last[r].entry[1]
           k == last[r].created + 1
           spec == last[r].detected[k]
           known == \E a \in DOMAIN alerts :
                       /\ alerts[a].rule_name = spec.rule_name
                       /\ alerts[a].source_ip = e.source_ip
                       /\ ~alerts[a].resolved
       IN /\ alerts' = IF known THEN alerts
                       ELSE Append(alerts, create_alert(spec, e, Len(alerts) + 1, now))
          /\ last' = [last EXCEPT ![r].created = k]
          /\ pc' = [pc EXCEPT ![r] = IF k = Len(last[r].detected) THEN "loop" ELSE "create"]
    /\ log_entries' = log_entries \o session[r]
    /\ session' = [session EXCEPT ![r] = <<>>]
    /\ UNCHANGED <<now, queue, req, calls>>

\* The next create_alert of request r for what its analyze returned:
\* db.add(alert); db.commit(), which commits the rows r has flushed too.
RaceCreateAlert(r) ==
    /\ pc[r] = "create"
    /\ LET e == last[r].entry[1]
           k == last[r].created + 1
       IN /\ alerts' = Append(alerts, create_alert(last[r].detected[k], e,
                                                   Len(alerts) + 1, now))
          /\ last' = [last EXCEPT ![r].created = k]
          /\ pc' = [pc EXCEPT ![r] = IF k = Len(last[r].detected) THEN "loop" ELSE "create"]
    /\ log_entries' = log_entries \o session[r]
    /\ session' = [session EXCEPT ![r] = <<>>]
    /\ UNCHANGED <<now, queue, req, calls>>

\* The db.commit() that ends request r.
RaceCommit(r) ==
    /\ pc[r] = "loop" /\ queue[r] = <<>>
    /\ log_entries' = log_entries \o session[r]
    /\ session' = [session EXCEPT ![r] = <<>>]
    /\ pc' = [pc EXCEPT ![r] = "done"]
    /\ req' = [req EXCEPT ![r].outcome = "ok"]
    /\ UNCHANGED <<now, alerts, queue, last, calls>>

NextRace ==
    \E r \in Requests :
        \/ RaceStart(r)
        \/ RaceSkip(r)
        \/ RaceFlush(r)
        \/ RaceAnalyze(r)
        \/ RaceCreateAlert(r)
        \/ RaceCommit(r)

SpecRace == InitRace /\ [][NextRace]_vars

Next ==
    \/ StartSingle(GeneralInputs, MaxEvents)
    \/ SingleRaises(GeneralInputs)
    \/ IngestEntry
    \/ Commit
    \/ Acknowledge
    \/ Resolve(GeneralClock)
    \/ UpdateNotes
    \/ Tick(GeneralClock)

Spec == Init /\ [][Next]_vars

----------------------------------------------------------------------------
(* Properties                                                              *)

\* The alert specifications of a rule among those a detection run returned.
Detected(rule_name) ==
    {k \in DOMAIN last.detected : last.detected[k].rule_name = rule_name}

\* C1: every stored alert satisfies resolved => acknowledged, resolved =>
\* resolved_at is set, and acknowledged => acknowledged_at is set.
C1_LifecycleInvariant ==
    \A i \in DOMAIN alerts :
        /\ alerts[i].resolved => alerts[i].acknowledged
        /\ alerts[i].resolved => alerts[i].resolved_at # NoTime
        /\ alerts[i].acknowledged => alerts[i].acknowledged_at # NoTime

\* An alert was resolved and another one acknowledged only.
C1_Witness ==
    \E i, j \in DOMAIN alerts :
        /\ alerts[i].resolved /\ alerts[i].acknowledged
        /\ alerts[i].acknowledged_at # NoTime /\ alerts[i].resolved_at # NoTime
        /\ alerts[j].acknowledged /\ ~alerts[j].resolved

\* The dedup window of a rule in minutes, and the dedup key of an alert.
DedupWindow(rule_name) ==
    CASE rule_name = "brute_force_login" -> brute_force_window_minutes
      [] rule_name = "privilege_escalation" -> 30
      [] OTHER -> 60

DedupKey(a) ==
    CASE a.rule_name \in {"brute_force_login", "blacklisted_ip"} -> <<a.source_ip>>
      [] a.rule_name \in {"impossible_travel", "privilege_escalation"} -> <<a.username>>
      [] OTHER -> <<a.username, a.source_ip>>

\* Whether the alert was raised by a path of its rule that has a dedup window:
\* all but the event-type path of privilege_escalation.
Deduplicated(a) ==
    a.rule_name = "privilege_escalation" => "keyword" \in DOMAIN a.context[1]

\* C2: no two unresolved alerts of one rule with a dedup window D and the
\* same dedup key have triggered_at values within a window of length D.
C2_DedupInvariant ==
    \A i, j \in DOMAIN alerts :
        (/\ i < j
         /\ alerts[i].rule_name = alerts[j].rule_name
         /\ DedupKey(alerts[i]) = DedupKey(alerts[j])
         /\ Deduplicated(alerts[i]) /\ Deduplicated(alerts[j])
         /\ ~alerts[i].resolved /\ ~alerts[j].resolved)
        => alerts[j].triggered_at - alerts[i].triggered_at
               > DedupWindow(alerts[i].rule_name)

\* C5: status and event_type of every stored event are lowercase.
C5_StoredLowercase ==
    \A i \in DOMAIN log_entries :
        /\ Lower(log_entries[i].status) = log_entries[i].status
        /\ Lower(log_entries[i].event_type) = log_entries[i].event_type

\* C6: no step takes an alert's acknowledged or resolved flag from true to
\* false, and no step deletes an alert or changes its identifier.
C6_OneWay ==
    [][\A i \in DOMAIN alerts :
          /\ i \in DOMAIN alerts'
          /\ alerts'[i].alert_id = alerts[i].alert_id
          /\ alerts[i].acknowledged => alerts'[i].acknowledged
          /\ alerts[i].resolved => alerts'[i].resolved]_vars

\* An alert acknowledged by carol and resolved by the system: one of the two
\* requests was served on an alert the other had already moved.
C6_Witness ==
    \E i \in DOMAIN alerts :
        /\ alerts[i].resolved /\ alerts[i].resolved_by = "System"
        /\ alerts[i].acknowledged_by = "carol"

\* The blacklisted_ip alerts stored for an address.
BlacklistAlerts(als, ip) ==
    {i \in DOMAIN als : als[i].rule_name = "blacklisted_ip" /\ als[i].source_ip = ip}

\* C9: while the alert of the first event from a blacklisted address is the
\* only one for it and unresolved, an event from the address stamped 10
\* minutes after the first yields no new alert, and one stamped 61 minutes
\* after the first yields a second alert.
C9_BlacklistWindow ==
    [][(/\ last'.n # last.n
        /\ last'.entry[1].source_ip \in blacklist
        /\ \E f \in DOMAIN Visible :
              /\ Visible[f].source_ip = last'.entry[1].source_ip
              /\ \A g \in 1..(f - 1) : Visible[g].source_ip # Visible[f].source_ip
              /\ \E a \in DOMAIN alerts :
                    /\ BlacklistAlerts(alerts, Visible[f].source_ip) = {a}
                    /\ alerts[a].log_entry_id = f
                    /\ ~alerts[a].resolved
              /\ last'.entry[1].timestamp - Visible[f].timestamp \in {10, 61})
       => \E f \in DOMAIN Visible :
              /\ Visible[f].source_ip = last'.entry[1].source_ip
              /\ \A g \in 1..(f - 1) : Visible[g].source_ip # Visible[f].source_ip
              /\ last'.entry[1].timestamp - Visible[f].timestamp = 10
                    => BlacklistAlerts(alerts', Visible[f].source_ip)
                           = BlacklistAlerts(alerts, Visible[f].source_ip)
              /\ last'.entry[1].timestamp - Visible[f].timestamp = 61
                    => BlacklistAlerts(alerts', Visible[f].source_ip)
                           # BlacklistAlerts(alerts, Visible[f].source_ip)]_vars

\* The stored failed logins from ip stamped within [t - W, t].
FailedLoginsIn(evs, ip, t) ==
    {i \in DOMAIN evs :
        /\ evs[i].source_ip = ip
        /\ evs[i].event_type = "login"
        /\ evs[i].status = "failed"
        /\ t - brute_force_window_minutes <= evs[i].timestamp
        /\ evs[i].timestamp <= t}

BruteAlerts(als) == {i \in DOMAIN als : als[i].rule_name = "brute_force_login"}

\* C3 as stated: for every stored brute_force_login alert, at least
\* brute_force_threshold failed logins from its IP are stored with timestamps
\* in [t - W, t], t being the alert's triggered_at.
C3_EventsAroundTriggeredAt ==
    \A a \in BruteAlerts(alerts) :
        Cardinality(FailedLoginsIn(log_entries, alerts[a].source_ip,
                                   alerts[a].triggered_at))
            >= brute_force_threshold

\* Whether an unresolved brute-force alert for the IP of e suppresses e.
BruteSuppressed(e, als) ==
    \E a \in BruteAlerts(als) :
        /\ als[a].source_ip = e.source_ip
        /\ ~als[a].resolved
        /\ als[a].triggered_at >= e.timestamp - brute_force_window_minutes

\* The first n stored rows are failed logins from one IP, one minute apart.
ScenarioPrefix(evs, n) ==
    /\ n <= Len(evs)
    /\ \A i \in 1..n :
          /\ evs[i].event_type = "login" /\ evs[i].status = "failed"
          /\ evs[i].source_ip = evs[1].source_ip /\ evs[1].source_ip # NoIp
          /\ evs[i].timestamp = evs[1].timestamp + (i - 1)

\* C7: the brute-force rule yields an alert for the ingested event e exactly
\* when e is a failed login with a source IP, at least brute_force_threshold
\* stored failed logins from that IP (e included) are stamped within
\* [e.timestamp - W, e.timestamp], and no unresolved brute-force alert for the
\* IP has triggered_at >= e.timestamp - W; the alert is then stored for e with
\* failed_attempts the count. So of five failed logins from one IP one minute
\* apart, only the fifth raises an alert, with failed_attempts = 5.
C7_BruteForceExactly ==
    [][last'.n # last.n =>
        LET e == last'.entry[1]
            hits == FailedLoginsIn(Visible', e.source_ip, e.timestamp)
            due == /\ e.event_type = "login" /\ e.status = "failed"
                   /\ e.source_ip # NoIp
                   /\ Cardinality(hits) >= brute_force_threshold
                   /\ ~BruteSuppressed(e, alerts)
            new == {a \in BruteAlerts(alerts') : a > Len(alerts)}
        IN /\ due <=> new # {}
           /\ Cardinality(new) <= 1
           /\ \A a \in new :
                 /\ alerts'[a].log_entry_id = e.id
                 /\ alerts'[a].source_ip = e.source_ip
                 /\ alerts'[a].severity = "High"
                 /\ alerts'[a].context[1].failed_attempts = Cardinality(hits)
           /\ (e.id <= 5 /\ ScenarioPrefix(Visible', e.id))
                 => /\ new # {} <=> e.id = 5
                    /\ \A a \in new : alerts'[a].context[1].failed_attempts = 5]_vars

\* The five failed logins of the scenario are stored, and the alert of the fifth.
C7_Witness ==
    /\ ScenarioPrefix(log_entries, 5)
    /\ \E a \in BruteAlerts(alerts) :
          alerts[a].log_entry_id = 5 /\ alerts[a].context[1].failed_attempts = 5
    /\ \A a \in BruteAlerts(alerts) : alerts[a].log_entry_id = 5

\* C8: a failed login from an IP that has an unresolved brute-force alert
\* with triggered_at >= t - W, t being the login's timestamp, creates no
\* further brute-force alert: the alerts of the IP stay as they were.
C8_BruteForceDedup ==
    [][(/\ last'.n # last.n
        /\ last'.entry[1].event_type = "login"
        /\ last'.entry[1].status = "failed"
        /\ BruteSuppressed(last'.entry[1], alerts))
       => /\ BruteAlerts(alerts') = BruteAlerts(alerts)
          /\ Detected("brute_force_login")' = {}]_vars

\* The sixth failed login of the scenario, five minutes after the first, is
\* stored and the alert of the fifth is still the only brute-force alert.
C8_Witness ==
    /\ ScenarioPrefix(log_entries, 6)
    /\ \E a \in DOMAIN alerts :
          /\ BruteAlerts(alerts) = {a}
          /\ ~alerts[a].resolved
          /\ alerts[a].log_entry_id = 5
          /\ alerts[a].triggered_at >= log_entries[6].timestamp - brute_force_window_minutes
    /\ pc = "idle"

\* C4: a storage failure during a request leaves none of the request's events
\* or alerts persisted: the committed tables are as they were when the
\* request started.
C4_BatchAtomic ==
    req.outcome = "storage_failure"
        => /\ Len(log_entries) = req.events0
           /\ Len(alerts) = req.alerts0

\* The lines of a batch that parse_line turns into an entry when nothing
\* stops the batch.
RECURSIVE GoodLines(_)
GoodLines(lines) ==
    IF lines = <<>> THEN 0
    ELSE GoodLines(Tail(lines))
         + (IF /\ ~ParseLineRaises(Head(lines))
               /\ \E loc \in LineLocations(Head(lines)) :
                     parse_line(Head(lines), T0, loc) # <<>>
            THEN 1 ELSE 0)

\* C10: a batch request (text or file) is never ended by an exception of one
\* of its lines, and when it commits, every line that can be parsed has been
\* persisted.
C10_BatchNotAborted ==
    req.path \in {"text", "file"}
        => /\ req.outcome # "exception"
           /\ req.outcome = "ok"
                 => /\ req.ingested = GoodLines(req.lines)
                    /\ Len(log_entries) = req.events0 + GoodLines(req.lines)

\* The alert specifications of the rule in the list analyze returned.
RuleSpecs(det, rule_name) == SelectSeq(det, LAMBDA sp : sp.rule_name = rule_name)

\* C11: when rules raise inside analyze for an event, analyze still returns
\* and the pass of the loop completes; a rule that raised contributes no
\* alert specification, and every other rule, before or after it in the
\* list, contributes exactly what its own check gives for the event.
C11_RuleIsolation ==
    [][last'.n # last.n =>
        LET e == last'.entry[1]
            det == last'.detected
            raised == last'.raised
            seen == Visible'
        IN /\ req'.outcome = "running"
           /\ seen[e.id] = e
           /\ \A r \in raised : RuleSpecs(det, r) = <<>>
           /\ "brute_force_login" \notin raised
                 => RuleSpecs(det, "brute_force_login") = BruteForceCheck(e, seen, alerts)
           /\ "impossible_travel" \notin raised
                 => RuleSpecs(det, "impossible_travel")
                       \in UNION {ImpossibleTravelCheck(e, seen, alerts, loc) :
                                     loc \in get_location(e.source_ip)}
           /\ "login_outside_business_hours" \notin raised
                 => RuleSpecs(det, "login_outside_business_hours")
                       = BusinessHoursCheck(e, alerts)
           /\ "privilege_escalation" \notin raised
                 => RuleSpecs(det, "privilege_escalation")
                       = PrivilegeEscalationCheck(e, alerts)
           /\ "blacklisted_ip" \notin raised
                 => RuleSpecs(det, "blacklisted_ip") = BlacklistIPCheck(e, alerts)
           /\ Len(det) = Len(RuleSpecs(det, "brute_force_login"))
                         + Len(RuleSpecs(det, "impossible_travel"))
                         + Len(RuleSpecs(det, "login_outside_business_hours"))
                         + Len(RuleSpecs(det, "privilege_escalation"))
                         + Len(RuleSpecs(det, "blacklisted_ip"))]_vars

\* The off-hours rule raised for an event and the blacklist rule, two places
\* after it in the list, still gave its alert, which is stored.
C11_Witness ==
    /\ last.raised = {"login_outside_business_hours"}
    /\ RuleSpecs(last.detected, "login_outside_business_hours") = <<>>
    /\ RuleSpecs(last.detected, "privilege_escalation") # <<>>
    /\ RuleSpecs(last.detected, "blacklisted_ip") # <<>>
    /\ \E a \in DOMAIN alerts :
          /\ alerts[a].rule_name = "blacklisted_ip"
          /\ alerts[a].log_entry_id = last.entry[1].id

\* A lifecycle request was served in the step and alert i is still stored.
Served(i) == calls' = calls + 1 /\ i \in DOMAIN alerts'

\* C12: acknowledging an acknowledged alert again as the same analyst, at
\* whatever time, leaves every field of the alert as it was. (A request that
\* keeps acknowledged_by, the resolution fields and the notes of an
\* acknowledged alert is such a repeated acknowledge, or changes nothing.)
C12_AcknowledgeIdempotent ==
    [][\A i \in DOMAIN alerts :
          (/\ Served(i)
           /\ alerts[i].acknowledged
           /\ alerts'[i].acknowledged_by = alerts[i].acknowledged_by
           /\ alerts'[i].resolved = alerts[i].resolved
           /\ alerts'[i].resolved_by = alerts[i].resolved_by
           /\ alerts'[i].resolved_at = alerts[i].resolved_at
           /\ alerts'[i].notes = alerts[i].notes)
          => alerts'[i] = alerts[i]]_vars

\* C13: resolving a resolved alert again as the same analyst, at whatever
\* time, leaves every field of the alert as it was. (A request that keeps
\* resolved_by, the acknowledgement fields and the notes of a resolved alert
\* is such a repeated resolve, or changes nothing.)
C13_ResolveIdempotent ==
    [][\A i \in DOMAIN alerts :
          (/\ Served(i)
           /\ alerts[i].resolved
           /\ alerts'[i].resolved_by = alerts[i].resolved_by
           /\ alerts'[i].acknowledged_by = alerts[i].acknowledged_by
           /\ alerts'[i].acknowledged_at = alerts[i].acknowledged_at
           /\ alerts'[i].notes = alerts[i].notes)
          => alerts'[i] = alerts[i]]_vars

\* Alert i, not resolved before the step, is resolved by it.
ResolvedIn(i) == Served(i) /\ ~alerts[i].resolved /\ alerts'[i].resolved

\* C14: resolve sets resolved and acknowledged, resolved_by to the analyst or
\* "System" and resolved_at to the time of the request; for an alert not
\* acknowledged before it sets acknowledged_by to the same analyst and
\* acknowledged_at to the same time, and for an acknowledged one it leaves
\* both as they were; nothing else of the alert changes.
C14_ResolveEffect ==
    [][\A i \in DOMAIN alerts :
          ResolvedIn(i)
          => /\ alerts'[i].acknowledged
             /\ alerts'[i].resolved_by \in {"System"} \cup (Analysts \ {None})
             /\ alerts'[i].resolved_at = now
             /\ IF alerts[i].acknowledged
                THEN /\ alerts'[i].acknowledged_by = alerts[i].acknowledged_by
                     /\ alerts'[i].acknowledged_at = alerts[i].acknowledged_at
                ELSE /\ alerts'[i].acknowledged_by = alerts'[i].resolved_by
                     /\ alerts'[i].acknowledged_at = alerts'[i].resolved_at
             /\ alerts'[i] = [alerts[i] EXCEPT
                                 !.resolved = alerts'[i].resolved,
                                 !.acknowledged = alerts'[i].acknowledged,
                                 !.resolved_by = alerts'[i].resolved_by,
                                 !.resolved_at = alerts'[i].resolved_at,
                                 !.acknowledged_by = alerts'[i].acknowledged_by,
                                 !.acknowledged_at = alerts'[i].acknowledged_at]]_vars

\* C15: when an alert acknowledged by an analyst is later resolved by the same
\* analyst, it ends acknowledged by and resolved by that analyst, with the
\* acknowledged_at of the acknowledgement and a resolved_at not before it.
C15_AcknowledgeThenResolve ==
    [][\A i \in DOMAIN alerts :
          (/\ ResolvedIn(i)
           /\ alerts[i].acknowledged
           /\ alerts'[i].resolved_by = alerts[i].acknowledged_by)
          => /\ alerts'[i].acknowledged
             /\ alerts'[i].acknowledged_by = alerts[i].acknowledged_by
             /\ alerts'[i].acknowledged_at = alerts[i].acknowledged_at
             /\ alerts'[i].acknowledged_at # NoTime
             /\ alerts'[i].resolved_at # NoTime
             /\ alerts'[i].resolved_at >= alerts'[i].acknowledged_at]_vars

\* An alert acknowledged by carol and, a minute later, resolved by carol.
C15_Witness ==
    \E i \in DOMAIN alerts :
        /\ alerts[i].acknowledged /\ alerts[i].resolved
        /\ alerts[i].acknowledged_by = "carol"
        /\ alerts[i].resolved_by = "carol"
        /\ alerts[i].acknowledged_at = T0
        /\ alerts[i].resolved_at = T0 + 1

\* The alerts of the rule that the step adds.
NewAlerts(rule_name) ==
    {a \in DOMAIN alerts' : a > Len(alerts) /\ alerts'[a].rule_name = rule_name}

\* C16: for an ingested event stamped on day d (Monday is 0) at hour h, the
\* off-hours rule gives an alert exactly when the event is a successful login,
\* d is Monday to Friday, h is outside [business_hours_start,
\* business_hours_end) -- h = start is inside, h = end is outside -- and no
\* unresolved alert of the rule for the same user and address has
\* triggered_at >= timestamp - 1 h; a weekend login never gives one; and
\* is_business_hours is false on Saturday and Sunday and otherwise true
\* exactly when start <= h < end.
C16_OffHours ==
    [][last'.n # last.n =>
        LET e == last'.entry[1]
        IN \A d \in 0..6, h \in 0..23, m \in 0..59 :
              e.timestamp = At(d, h, m) =>
                 LET inside == business_hours_start <= h /\ h < business_hours_end
                     suppressed ==
                         \E a \in DOMAIN alerts :
                            /\ alerts[a].rule_name = "login_outside_business_hours"
                            /\ alerts[a].username = e.username
                            /\ alerts[a].source_ip = e.source_ip
                            /\ ~alerts[a].resolved
                            /\ alerts[a].triggered_at >= e.timestamp - 60
                     due == /\ e.event_type = "login" /\ e.status = "success"
                            /\ d <= 4 /\ ~inside /\ ~suppressed
                 IN /\ is_business_hours(e.timestamp, business_hours_start,
                                         business_hours_end) = (d <= 4 /\ inside)
                    /\ due <=> NewAlerts("login_outside_business_hours") # {}
                    /\ d >= 5 => NewAlerts("login_outside_business_hours") = {}
                    /\ \A a \in NewAlerts("login_outside_business_hours") :
                          /\ alerts'[a].log_entry_id = e.id
                          /\ alerts'[a].severity = "Medium"]_vars

\* A login at 18:00 on Wednesday has its alert, and logins at 08:00 on
\* Wednesday and at 20:00 on Saturday are stored without one.
C16_Witness ==
    /\ \E a \in DOMAIN alerts :
          /\ alerts[a].rule_name = "login_outside_business_hours"
          /\ alerts[a].log_entry_id \in DOMAIN log_entries
          /\ log_entries[alerts[a].log_entry_id].timestamp = At(2, 18, 0)
    /\ \A t \in {At(2, 8, 0), At(5, 20, 0)} :
          \E i \in DOMAIN log_entries :
             /\ log_entries[i].timestamp = t
             /\ \A a \in DOMAIN alerts : alerts[a].log_entry_id # i

\* C17: an ingested event whose event_type is privilege_escalation,
\* admin_access, sudo or su gets exactly one privilege_escalation alert
\* (severity High), whatever alerts are stored already.
C17_EscalationUnconditional ==
    [][(/\ last'.n # last.n
        /\ last'.entry[1].event_type
              \in {"privilege_escalation", "admin_access", "sudo", "su"})
       => /\ Cardinality(NewAlerts("privilege_escalation")) = 1
          /\ \A a \in NewAlerts("privilege_escalation") :
                /\ alerts'[a].log_entry_id = last'.entry[1].id
                /\ alerts'[a].username = last'.entry[1].username
                /\ alerts'[a].severity = "High"]_vars

\* Two events of the escalation types for one user, stamped the same minute,
\* each with its alert, both alerts unresolved.
C17_Witness ==
    \E a, b \in DOMAIN alerts :
        /\ a < b
        /\ alerts[a].rule_name = "privilege_escalation"
        /\ alerts[b].rule_name = "privilege_escalation"
        /\ alerts[a].username = alerts[b].username
        /\ ~alerts[a].resolved /\ ~alerts[b].resolved
        /\ alerts[a].log_entry_id # alerts[b].log_entry_id
        /\ \A x \in {a, b} :
              /\ alerts[x].log_entry_id \in DOMAIN log_entries
              /\ log_entries[alerts[x].log_entry_id].event_type \in {"sudo", "su"}

\* The words of the model's raw logs that hold a keyword of the set, in the
\* letters they are written in.
KeywordWords == {"sudo", "SUDO", "su", "root", "admin", "success"}

\* C18: for an ingested event whose event_type is not of the escalation
\* types, the rule gives an alert exactly when the raw log holds a keyword,
\* in whatever case, and no unresolved privilege_escalation alert of the same
\* username has triggered_at >= timestamp - 30 min; a raw log without a
\* keyword gives none.
C18_EscalationKeyword ==
    [][(/\ last'.n # last.n
        /\ last'.entry[1].event_type
              \notin {"privilege_escalation", "admin_access", "sudo", "su"})
       => LET e == last'.entry[1]
              mentions == \E i \in DOMAIN e.raw_log : e.raw_log[i] \in KeywordWords
              suppressed ==
                  \E a \in DOMAIN alerts :
                     /\ alerts[a].rule_name = "privilege_escalation"
                     /\ alerts[a].username = e.username
                     /\ ~alerts[a].resolved
                     /\ alerts[a].triggered_at >= e.timestamp - 30
          IN /\ (mentions /\ ~suppressed) <=> NewAlerts("privilege_escalation") # {}
             /\ ~mentions => NewAlerts("privilege_escalation") = {}
             /\ Cardinality(NewAlerts("privilege_escalation")) <= 1
             /\ \A a \in NewAlerts("privilege_escalation") :
                   alerts'[a].log_entry_id = e.id]_vars

\* A keyword event stamped 30 minutes after the clock reading of an open alert
\* of its user is stored without an alert, and one stamped 31 minutes after
\* has its own.
C18_Witness ==
    \E i, j \in DOMAIN log_entries :
        /\ log_entries[i].event_type = "command" /\ log_entries[i].timestamp = T0 + 30
        /\ log_entries[j].event_type = "command" /\ log_entries[j].timestamp = T0 + 31
        /\ log_entries[i].raw_log = <<"run", "SUDO">>
        /\ log_entries[j].raw_log = <<"run", "SUDO">>
        /\ \A a \in DOMAIN alerts : alerts[a].log_entry_id # i
        /\ \E a \in DOMAIN alerts :
              /\ alerts[a].log_entry_id = j
              /\ alerts[a].rule_name = "privilege_escalation"
        /\ \E a \in DOMAIN alerts :
              /\ alerts[a].rule_name = "privilege_escalation"
              /\ alerts[a].username = log_entries[i].username
              /\ ~alerts[a].resolved
              /\ alerts[a].triggered_at = T0
              /\ alerts[a].log_entry_id < i

\* The stored logins the previous_login query of the rule may return for the
\* event on the last row of rows: the most recent successful logins of its
\* user from another address in the hour before it, with a stored latitude.
PriorLogins(rows) ==
    LET e == rows[Len(rows)]
        cand == {i \in DOMAIN rows :
                   /\ rows[i].username = e.username
                   /\ rows[i].event_type = "login" /\ rows[i].status = "success"
                   /\ rows[i].source_ip # e.source_ip
                   /\ e.timestamp - 60 <= rows[i].timestamp
                   /\ rows[i].timestamp < e.timestamp
                   /\ rows[i].latitude # <<>>}
    IN {i \in cand : \A j \in cand : rows[j].timestamp <= rows[i].timestamp}

\* The prior login p and the location loc are too far apart for the time
\* between p and the instant t: at least min_distance_km, and more than
\* max_realistic_speed allows. A latitude or longitude of 0.0 counts as none.
TooFar(p, loc, t) ==
    /\ TruthyNum(p.latitude) /\ TruthyNum(p.longitude)
    /\ LET distance == calculate_distance(p.latitude[1], p.longitude[1],
                                          loc.latitude, loc.longitude)
       IN /\ distance >= 1000
          /\ (t - p.timestamp) * 800 < distance * 60

\* C19: for an ingested event e with no unresolved impossible_travel alert of
\* its user triggered in the hour before its timestamp, the rule gives an
\* alert exactly when e is a successful login with a username and an address,
\* the resolver gives the rule a location with a latitude for the address, and
\* the prior login selected is at least 1000 km away and less than
\* distance / 800 hours before e; the alert is the only one of the rule, is
\* Critical, and logins 30 minutes and 8272 km apart give time_hours = 0.5.
C19_ImpossibleTravel ==
    [][last'.n # last.n =>
        LET e == last'.entry[1]
            loc == last'.loc
            rows == log_entries' \o session'
            new == NewAlerts("impossible_travel")
            suppressed ==
                \E a \in DOMAIN alerts :
                   /\ alerts[a].rule_name = "impossible_travel"
                   /\ alerts[a].username = e.username
                   /\ ~alerts[a].resolved
                   /\ alerts[a].triggered_at >= e.timestamp - 60
            applicable ==
                /\ e.event_type = "login" /\ e.status = "success"
                /\ e.username \notin {None, ""} /\ e.source_ip # NoIp
                /\ loc # <<>> /\ loc[1].latitude # 0
            prior == PriorLogins(rows)
        IN /\ rows[Len(rows)] = e
           /\ new # {} =>
                 /\ applicable /\ ~suppressed
                 /\ \E p \in prior : TooFar(rows[p], loc[1], e.timestamp)
           /\ (/\ applicable /\ ~suppressed /\ prior # {}
               /\ \A p \in prior : TooFar(rows[p], loc[1], e.timestamp))
                 => new # {}
           /\ Cardinality(new) <= 1
           /\ \A a \in new :
                 /\ alerts'[a].severity = "Critical"
                 /\ alerts'[a].log_entry_id = e.id
                 /\ alerts'[a].context[1].current_ip = e.source_ip
                 /\ \E p \in prior :
                       /\ alerts'[a].context[1].previous_ip = rows[p].source_ip
                       /\ alerts'[a].context[1].previous_timestamp = rows[p].timestamp
                 /\ (/\ alerts'[a].context[1].distance_km = 8272
                     /\ e.timestamp - alerts'[a].context[1].previous_timestamp = 30)
                       => alerts'[a].context[1].time_hours = 50]_vars

\* alice's logins from San Francisco at T0 and from Tokyo 30 minutes later are
\* stored with exactly one alert of the rule, which is Critical, is about the
\* second login and has time_hours = 0.5; the login from Los Angeles, 559 km
\* and 30 minutes from the first, is stored without one.
C19_Witness ==
    \E i, j, k \in DOMAIN log_entries :
        /\ log_entries[i].source_ip = SanFranciscoIp /\ log_entries[i].timestamp = T0
        /\ log_entries[j].source_ip = LosAngelesIp /\ log_entries[j].timestamp = T0 + 30
        /\ log_entries[k].source_ip = TokyoIp /\ log_entries[k].timestamp = T0 + 30
        /\ i < j /\ j < k
        /\ log_entries[j].latitude # <<>>
        /\ \A x \in {i, j, k} :
              /\ log_entries[x].username = "alice"
              /\ log_entries[x].event_type = "login"
              /\ log_entries[x].status = "success"
        /\ Cardinality({a \in DOMAIN alerts :
                           alerts[a].rule_name = "impossible_travel"}) = 1
        /\ \E a \in DOMAIN alerts :
              /\ alerts[a].rule_name = "impossible_travel"
              /\ alerts[a].severity = "Critical"
              /\ alerts[a].log_entry_id = k
              /\ alerts[a].context[1].time_hours = 50
              /\ alerts[a].context[1].previous_ip \in {SanFranciscoIp, LosAngelesIp}

\* The address ip stands in the setting as an entry of its own: between two
\* commas (or an end of the string), with nothing but blanks around it.
EntryOf(ip, setting) ==
    \E k \in DOMAIN setting :
        /\ setting[k] = ip
        /\ \E lo \in 0..(k - 1), hi \in (k + 1)..(Len(setting) + 1) :
              /\ lo = 0 \/ setting[lo] = Comma
              /\ hi = Len(setting) + 1 \/ setting[hi] = Comma
              /\ \A j \in (lo + 1)..(hi - 1) : j # k => setting[j] = Blank

\* C20: an ingested event gets a blacklisted_ip alert exactly when its
\* source_ip is a member of the blacklist set and no unresolved alert of the
\* rule for that address has triggered_at >= timestamp - 1 h, whatever its
\* event_type, status and username; an event with no source_ip or an address
\* outside the set gets none; the first event from a listed address gets
\* exactly one, with severity Critical; and the set holds exactly the
\* addresses that stand between the commas of IP_BLACKLIST, blanks around
\* them trimmed and empty entries dropped.
C20_BlacklistMembership ==
    [][last'.n # last.n =>
        LET e == last'.entry[1]
            new == NewAlerts("blacklisted_ip")
            member == e.source_ip # NoIp /\ EntryOf(e.source_ip, ip_blacklist)
            suppressed ==
                \E a \in DOMAIN alerts :
                   /\ alerts[a].rule_name = "blacklisted_ip"
                   /\ alerts[a].source_ip = e.source_ip
                   /\ ~alerts[a].resolved
                   /\ alerts[a].triggered_at >= e.timestamp - 60
            first == \A i \in DOMAIN log_entries :
                        log_entries[i].source_ip # e.source_ip
        IN /\ (member /\ ~suppressed) <=> new # {}
           /\ ~member => new = {}
           /\ (member /\ first) => Cardinality(new) = 1
           /\ Cardinality(new) <= 1
           /\ \A a \in new :
                 /\ alerts'[a].severity = "Critical"
                 /\ alerts'[a].source_ip = e.source_ip
                 /\ alerts'[a].log_entry_id = e.id
           /\ \A setting \in BlacklistSettings :
                 /\ <<>> \notin ParseBlacklist(setting)
                 /\ \A entry \in ParseBlacklist(setting) :
                       Head(entry) # Blank /\ entry[Len(entry)] # Blank
                 /\ \A ip \in {Listed, Attacker, e.source_ip} \ {NoIp} :
                       <<ip>> \in ParseBlacklist(setting) <=> EntryOf(ip, setting)]_vars

\* A failed login from one listed address and a successful login from
\* another are stored with a Critical alert each, and an event from the
\* address next to a listed one is stored without an alert.
C20_Witness ==
    /\ \E a, b \in DOMAIN alerts :
          /\ a # b
          /\ alerts[a].rule_name = "blacklisted_ip"
          /\ alerts[b].rule_name = "blacklisted_ip"
          /\ alerts[a].severity = "Critical" /\ alerts[b].severity = "Critical"
          /\ alerts[a].source_ip = Listed
          /\ alerts[b].source_ip = <<192, 168, 1, 200>>
          /\ alerts[a].context[1].status = "failed"
          /\ alerts[b].context[1].status = "success"
    /\ \E i \in DOMAIN log_entries :
          /\ log_entries[i].source_ip = <<10, 0, 0, 101>>
          /\ \A a \in DOMAIN alerts : alerts[a].log_entry_id # i

\* C21: in a pass of a batch over its event k, the event is added as the
\* last visible row before the rules run, the rows of later lines are not
\* there yet, and the alerts detected for it are all stored by the end of the
\* pass, after the alerts of the earlier lines; so the brute-force count for
\* the event is taken over the rows stored before the batch, the earlier
\* events of the batch and the event itself.
C21_BatchOrder ==
    [][(last'.n # last.n /\ pc \in {"text", "file"}) =>
        LET e == last'.entry[1]
            rows == log_entries' \o session'
            k == req'.ingested
            hits == {i \in 1..(req.events0 + k) :
                       /\ rows[i].source_ip = e.source_ip
                       /\ rows[i].event_type = "login" /\ rows[i].status = "failed"
                       /\ e.timestamp - brute_force_window_minutes <= rows[i].timestamp
                       /\ rows[i].timestamp <= e.timestamp}
            new == (Len(alerts) + 1)..Len(alerts')
        IN /\ k = req.ingested + 1
           /\ rows = Visible \o <<e>>
           /\ Len(rows) = req.events0 + k
           /\ e.id = req.events0 + k
           /\ queue' = Tail(queue)
           /\ SubSeq(alerts', 1, Len(alerts)) = alerts
           /\ Len(alerts') = Len(alerts) + Len(last'.detected)
           /\ \A a \in new : alerts'[a].log_entry_id = e.id
           /\ \A a \in DOMAIN alerts : alerts[a].log_entry_id < e.id
           /\ (\E a \in new : alerts'[a].rule_name = "brute_force_login")
                 <=> /\ e.event_type = "login" /\ e.status = "failed"
                     /\ e.source_ip # NoIp
                     /\ Cardinality(hits) >= brute_force_threshold
                     /\ ~BruteSuppressed(e, alerts)
           /\ \A a \in new :
                 alerts'[a].rule_name = "brute_force_login"
                    => alerts'[a].context[1].failed_attempts = Cardinality(hits)]_vars

\* A text batch of two failed logins sent after three stored ones has
\* finished: five failed logins are stored, and the only brute-force alert is
\* for the second line of the batch, with failed_attempts = 5.
C21_Witness ==
    /\ pc = "idle" /\ req.path = "text" /\ req.outcome = "ok"
    /\ req.events0 = 3 /\ req.ingested = 2
    /\ Len(log_entries) = 5
    /\ \A i \in DOMAIN log_entries :
          log_entries[i].event_type = "login" /\ log_entries[i].status = "failed"
    /\ \E a \in BruteAlerts(alerts) :
          alerts[a].log_entry_id = 5 /\ alerts[a].context[1].failed_attempts = 5
    /\ \A a \in BruteAlerts(alerts) : alerts[a].log_entry_id = 5

\* C22: when a request has returned, ingested is the number of rows it added
\* to the event table and alerts_generated the number of rows it added to the
\* alert table; for a batch, ingested is the number of its lines that parse
\* into an entry, blank and unparseable lines being counted in neither; for a
\* single ingest, ingested is 1.
C22_ReturnedCounts ==
    req.outcome = "ok"
        => /\ req.ingested = Len(log_entries) - req.events0
           /\ req.alerts_generated = Len(alerts) - req.alerts0
           /\ \A a \in (req.alerts0 + 1)..Len(alerts) :
                 alerts[a].log_entry_id > req.events0
           /\ req.path \in {"text", "file"} => req.ingested = GoodLines(req.lines)
           /\ req.path = "single" => req.ingested = 1

\* A text batch of a blank line and a line that raises three alerts has
\* returned ingested = 1 and alerts_generated = 3.
C22_Witness ==
    /\ req.outcome = "ok" /\ req.path = "text"
    /\ Len(req.lines) = 2 /\ BlankLine \in {req.lines[i] : i \in DOMAIN req.lines}
    /\ req.ingested = 1 /\ req.alerts_generated = 3
    /\ Len(alerts) = req.alerts0 + 3

\* C23: no call of get_location raises, and so no request is ended by an
\* exception of its get_location call.
C23_GetLocationNeverRaises ==
    \A i \in DOMAIN req.geo :
        /\ ~req.geo[i].raises
        /\ req.outcome # "exception"

\* The dotted quad a.b.c.d lies in 10.0.0.0/8, 172.16.0.0/12,
\* 192.168.0.0/16 or 127.0.0.0/8. In the /12 the second octet keeps its four
\* high bits: 16 to 31.
InPrivateRanges(ip) ==
    \/ ip[1] = 10
    \/ ip[1] = 172 /\ ip[2] \div 16 = 1
    \/ ip[1] = 192 /\ ip[2] = 168
    \/ ip[1] = 127

\* C24: a call of get_location for an address of the private and loopback
\* ranges returns None and calls neither the reader of the local database nor
\* the HTTP service; a call for any other address calls at least one of them;
\* and the event of a private address is stored without a location.
C24_PrivateShortCircuit ==
    /\ \A i \in DOMAIN req.geo :
          LET c == req.geo[i]
          IN IF InPrivateRanges(c.ip)
             THEN ~c.raises /\ c.value = <<>> /\ ~c.db_called /\ ~c.http_called
             ELSE c.db_called \/ c.http_called
    /\ \A i \in DOMAIN queue :
          (req.path = "single" /\ queue[i].source_ip # NoIp
             /\ InPrivateRanges(queue[i].source_ip))
            => /\ queue[i].country_code = None
               /\ queue[i].latitude = <<>> /\ queue[i].longitude = <<>>

\* Requests for 172.31.255.1 and for 172.32.0.1 have been served: the first
\* is stored without a location, the second is about to be stored after a
\* lookup over HTTP that the reader's miss led to.
C24_Witness ==
    /\ \E i \in DOMAIN log_entries :
          /\ log_entries[i].source_ip = <<172, 31, 255, 1>>
          /\ log_entries[i].latitude = <<>>
    /\ pc = "single"
    /\ req.geo # <<>>
    /\ req.geo[1].ip = <<172, 32, 0, 1>>
    /\ req.geo[1].db_called /\ req.geo[1].http_called

\* C25: every stored event has country_code, latitude and longitude either
\* all null or all non-null.
C25_LocationTogether ==
    \A i \in DOMAIN log_entries :
        LET e == log_entries[i]
        IN \/ e.country_code = None /\ e.latitude = <<>> /\ e.longitude = <<>>
           \/ e.country_code # None /\ e.latitude # <<>> /\ e.longitude # <<>>

\* The routes that look a row up by its identifier.
AlertRoutes == {"acknowledge", "resolve", "notes", "alert_detail"}

\* C26: a call of acknowledge, resolve, update-notes or alert-detail answers
\* 404 exactly when no stored alert has the identifier, a call of
\* event-detail exactly when no stored event has it, and a call that answers
\* 404 leaves every stored alert and event as it was.
C26_NotFound ==
    [][calls' # calls =>
        /\ req'.path \in AlertRoutes =>
              (req'.outcome = "404"
                 <=> \A i \in DOMAIN alerts : alerts[i].alert_id # req'.target)
        /\ req'.path = "log_detail" =>
              (req'.outcome = "404"
                 <=> \A i \in DOMAIN log_entries : log_entries[i].id # req'.target)
        /\ req'.outcome \in {"200", "404"}
        /\ req'.outcome = "404" =>
              /\ alerts' = alerts
              /\ log_entries' = log_entries
              /\ session' = session]_vars

\* With one alert stored, a call of resolve for an identifier that no alert
\* has was answered 404, and the alert is still open.
C26_Witness ==
    /\ req.path = "resolve" /\ req.outcome = "404"
    /\ Len(alerts) = 1
    /\ req.target # alerts[1].alert_id
    /\ ~alerts[1].resolved /\ ~alerts[1].acknowledged

\* The statistics of the alert table als are right: each severity key counts
\* the unresolved alerts of that severity, and total is their sum and the
\* number of unresolved alerts.
StatsRight(als) ==
    LET stats == get_alert_statistics(als)
        open(sev) == {i \in DOMAIN als : als[i].severity = sev /\ ~als[i].resolved}
    IN /\ DOMAIN stats = {"Critical", "High", "Medium", "Low", "total"}
       /\ \A sev \in {"Critical", "High", "Medium", "Low"} :
             stats[sev] = Cardinality(open(sev))
       /\ stats["total"] = stats["Critical"] + stats["High"] + stats["Medium"] + stats["Low"]
       /\ stats["total"] = Cardinality({i \in DOMAIN als : ~als[i].resolved})

\* C27: before and after every step the statistics are right, and a step that
\* resolves an unresolved alert lowers the count of its severity and total by
\* exactly one and leaves the other counts alone.
C27_Statistics ==
    [][/\ StatsRight(alerts) /\ StatsRight(alerts')
       /\ \A i \in DOMAIN alerts :
             ResolvedIn(i) =>
                LET before == get_alert_statistics(alerts)
                    after == get_alert_statistics(alerts')
                IN /\ after[alerts[i].severity] = before[alerts[i].severity] - 1
                   /\ after["total"] = before["total"] - 1
                   /\ \A sev \in {"Critical", "High", "Medium", "Low"} \ {alerts[i].severity} :
                         after[sev] = before[sev]]_vars

\* Alerts of three severities are stored, one of them resolved: the
\* statistics count two.
C27_Witness ==
    /\ {alerts[i].severity : i \in DOMAIN alerts} = {"Critical", "High", "Medium"}
    /\ Len(alerts) = 3
    /\ \E i \in DOMAIN alerts :
          /\ alerts[i].resolved
          /\ \A j \in DOMAIN alerts \ {i} : ~alerts[j].resolved
    /\ get_alert_statistics(alerts)["total"] = 2

\* C28: every alert an ingest step stores is open (not acknowledged, not
\* resolved, no analyst and no time of either), carries the wall-clock time of
\* the step as triggered_at whatever the timestamp of its event, has the
\* source_ip, the username and the id of its event, and has a context, which
\* is null exactly when the bag of its specification is empty.
C28_CreatedAlert ==
    [][last'.n # last.n =>
        LET e == last'.entry[1]
            empty == [rule_name |-> "manual", severity |-> "Low",
                      context |-> [key \in {} |-> 0]]
        IN /\ create_alert(empty, e, 1, now).context = <<>>
           /\ \A a \in (Len(alerts) + 1)..Len(alerts') :
                 /\ ~alerts'[a].acknowledged /\ ~alerts'[a].resolved
                 /\ alerts'[a].acknowledged_by = None
                 /\ alerts'[a].acknowledged_at = NoTime
                 /\ alerts'[a].resolved_by = None
                 /\ alerts'[a].resolved_at = NoTime
                 /\ alerts'[a].triggered_at = now
                 /\ alerts'[a].source_ip = e.source_ip
                 /\ alerts'[a].username = e.username
                 /\ alerts'[a].log_entry_id = e.id
                 /\ alerts'[a].context = <<last'.detected[a - Len(alerts)].context>>
                 /\ DOMAIN alerts'[a].context[1] # {}]_vars

\* An alert for an event stamped 20:00 is stored open with triggered_at one
\* minute past 10:00, the reading of the clock when it was created.
C28_Witness ==
    \E a \in DOMAIN alerts :
        /\ alerts[a].triggered_at = T0 + 1
        /\ alerts[a].log_entry_id \in DOMAIN log_entries
        /\ log_entries[alerts[a].log_entry_id].timestamp = T0 + 10 * 60
        /\ ~alerts[a].acknowledged /\ ~alerts[a].resolved
        /\ alerts[a].source_ip = Listed

\* The runs of analyze of request r that returned a blacklisted_ip
\* specification.
BlacklistRuns(r) ==
    {i \in DOMAIN req[r].runs :
        \E k \in DOMAIN req[r].runs[i].detected :
            req[r].runs[i].detected[k].rule_name = "blacklisted_ip"}

\* The unresolved blacklisted_ip alert stored for the event of id id.
AlertsOfEvent(id) ==
    {a \in DOMAIN alerts :
        /\ alerts[a].rule_name = "blacklisted_ip"
        /\ alerts[a].log_entry_id = id
        /\ ~alerts[a].resolved}

\* C29: when two requests have each run the blacklisted_ip query for the same
\* address and found no alert, both alerts are stored once the two requests
\* are over: two unresolved alerts of the rule and address, created at the
\* same time. And two such alerts come from such a race only: the query of the
\* request that stored the later one ran before the earlier one was stored.
C29_DuplicateRace ==
    /\ \A r1, r2 \in Requests :
          (r1 # r2 /\ pc[r1] = "done" /\ pc[r2] = "done") =>
             \A i \in BlacklistRuns(r1), j \in BlacklistRuns(r2) :
                LET x == req[r1].runs[i].entry
                    y == req[r2].runs[j].entry
                IN x.source_ip = y.source_ip =>
                      \E a \in AlertsOfEvent(x.id), b \in AlertsOfEvent(y.id) :
                          /\ a # b
                          /\ alerts[a].source_ip = alerts[b].source_ip
                          /\ alerts[a].triggered_at = alerts[b].triggered_at
    /\ \A a, b \in DOMAIN alerts :
          (/\ a < b
           /\ alerts[a].rule_name = "blacklisted_ip"
           /\ alerts[b].rule_name = "blacklisted_ip"
           /\ alerts[a].source_ip = alerts[b].source_ip
           /\ ~alerts[a].resolved) =>
             \E r \in Requests : \E j \in BlacklistRuns(r) :
                /\ req[r].runs[j].entry.id = alerts[b].log_entry_id
                /\ req[r].runs[j].alerts_seen < a

\* Two requests are over, each ran its query while no alert was stored, and
\* two unresolved blacklisted_ip alerts for the one address are stored.
C29_Witness ==
    /\ \A r \in {1, 2} :
          /\ pc[r] = "done"
          /\ \E j \in BlacklistRuns(r) : req[r].runs[j].alerts_seen = 0
    /\ Len(alerts) = 2
    /\ \A a \in DOMAIN alerts :
          /\ alerts[a].rule_name = "blacklisted_ip"
          /\ alerts[a].source_ip = Listed
          /\ ~alerts[a].resolved
    /\ alerts[1].log_entry_id # alerts[2].log_entry_id

\* The stored events the rule may compare the event on the last row of rows
\* with: same user, successful login, in the hour before it and strictly
\* earlier, from another address, with a latitude.
Qualifying(rows) ==
    LET e == rows[Len(rows)]
    IN {i \in DOMAIN rows :
          /\ rows[i].username = e.username
          /\ rows[i].status = "success" /\ rows[i].event_type = "login"
          /\ rows[i].timestamp >= e.timestamp - 60
          /\ rows[i].timestamp < e.timestamp
          /\ rows[i].source_ip # e.source_ip
          /\ rows[i].latitude # <<>>}

\* C30: an impossible_travel alert for an ingested event e names a qualifying
\* stored event than which no qualifying event is more recent, and that event
\* is too far from e; with no qualifying event there is no alert; and there is
\* none when no most recent qualifying event is too far from e, whatever the
\* older qualifying events are.
C30_MostRecentOnly ==
    [][last'.n # last.n =>
        LET e == last'.entry[1]
            rows == log_entries' \o session'
            new == NewAlerts("impossible_travel")
            qual == Qualifying(rows)
            recent == {p \in qual : \A q \in qual : rows[q].timestamp <= rows[p].timestamp}
        IN /\ rows[Len(rows)] = e
           /\ qual = {} => new = {}
           /\ (\A p \in recent : last'.loc = <<>> \/ ~TooFar(rows[p], last'.loc[1], e.timestamp))
                 => new = {}
           /\ \A a \in new :
                 /\ \E p \in recent :
                       /\ alerts'[a].context[1].previous_ip = rows[p].source_ip
                       /\ alerts'[a].context[1].previous_timestamp = rows[p].timestamp
                       /\ TooFar(rows[p], last'.loc[1], e.timestamp)
                 /\ \A q \in qual :
                       rows[q].timestamp <= alerts'[a].context[1].previous_timestamp
                 /\ alerts'[a].context[1].previous_ip # e.source_ip
                 /\ alerts'[a].context[1].previous_timestamp < e.timestamp
                 /\ alerts'[a].context[1].previous_timestamp >= e.timestamp - 60]_vars

\* A login from San Francisco at 10:31 was checked with logins from Tokyo at
\* 10:00 (8272 km away) and from Los Angeles at 10:30 (559 km away) stored,
\* and no alert was raised.
C30_Witness ==
    /\ last.entry # <<>>
    /\ last.entry[1].source_ip = SanFranciscoIp
    /\ last.entry[1].timestamp = T0 + 31
    /\ last.loc # <<>>
    /\ last.detected = <<>>
    /\ alerts = <<>>
    /\ LET rows == log_entries \o session
       IN /\ \E p \in Qualifying(rows) :
                /\ rows[p].source_ip = TokyoIp /\ rows[p].timestamp = T0
                /\ TooFar(rows[p], last.loc[1], T0 + 31)
          /\ \E p \in Qualifying(rows) :
                /\ rows[p].source_ip = LosAngelesIp /\ rows[p].timestamp = T0 + 30
                /\ ~TooFar(rows[p], last.loc[1], T0 + 31)

\* The place of a template in the order Apache/Nginx access, SSH
\* authentication, generic auth, Windows-style, JSON-ish, simple.
TemplateRank(n) ==
    CASE n = "apache_access" -> 1
      [] n = "ssh_auth" -> 2
      [] n = "auth_log" -> 3
      [] n = "windows_event" -> 4
      [] n = "json_log" -> 5
      [] n = "simple_log" -> 6

\* The template the line is read by: the first of that order that matches.
Winner(line) ==
    CHOOSE n \in DOMAIN line.groups :
        \A m \in DOMAIN line.groups : TemplateRank(n) <= TemplateRank(m)

\* A step of the text path that works on the line at the head of the batch
\* and makes an event of it, or drops it.
ParsesLine == pc = "text" /\ last'.n # last.n
DropsLine == pc = "text" /\ pc' = "text" /\ queue # <<>> /\ queue' = Tail(queue) /\ last' = last

\* C31: a line that templates match is read by the first of them in the
\* order Apache/Nginx access, SSH, generic auth, Windows-style, JSON-ish,
\* simple, and the username, event_type and status of its event are what that
\* template captures; a line no template matches that has an IPv4 literal
\* gives an event of that address with event_type and status unknown, no
\* username and the time of ingestion as timestamp; every other line is
\* dropped and nothing is stored for it.
C31_FirstTemplateWins ==
    [][/\ ParsesLine =>
            LET line == Head(queue)
                e == last'.entry[1]
            IN /\ line.words # <<>>
               /\ e.raw_log = line.words
               /\ DOMAIN line.groups # {} =>
                     LET n == Winner(line)
                         g == line.groups[n]
                     IN /\ e.username = (IF n = "apache_access" THEN "" ELSE g.username)
                        /\ e.event_type =
                              (IF n = "simple_log" THEN Lower(g.event_type)
                               ELSE IF n = "ssh_auth" THEN "login"
                               ELSE "authentication")
                        /\ e.status =
                              (IF n = "apache_access" THEN "unknown"
                               ELSE IF n = "ssh_auth"
                               THEN (IF g.event = "Accepted" THEN "success" ELSE "failed")
                               ELSE Lower(g.status))
               /\ DOMAIN line.groups = {} =>
                     /\ line.ipv4 # NoIp
                     /\ e.source_ip = line.ipv4
                     /\ e.event_type = "unknown" /\ e.status = "unknown"
                     /\ e.username = ""
                     /\ e.timestamp = now
       /\ DropsLine =>
            /\ DOMAIN Head(queue).groups = {}
            /\ Head(queue).ipv4 = NoIp \/ Head(queue).words = <<>>
            /\ log_entries' = log_entries /\ session' = session
            /\ alerts' = alerts]_vars

\* The line 'superuser login failed', which the generic auth and the simple
\* template both match, was stored as the generic auth template reads it:
\* username login, event_type authentication.
C31_Witness ==
    /\ last.entry # <<>>
    /\ last.entry[1].raw_log = <<"superuser", "login", "failed">>
    /\ last.entry[1].username = "login"
    /\ last.entry[1].event_type = "authentication"
    /\ last.entry[1].status = "failed"
    /\ \E i \in DOMAIN log_entries : log_entries[i] = last.entry[1]

\* C32: the event made of a line the Apache/Nginx access template reads has
\* the address the template captured in its group ip as source_ip.
C32_ApacheSourceIp ==
    [][(ParsesLine /\ DOMAIN Head(queue).groups # {}) =>
          (Winner(Head(queue)) = "apache_access" =>
              last'.entry[1].source_ip = Head(queue).groups["apache_access"].ip)]_vars

\* C33: the event made of a line whose timestamp is written 'Mon DD HH:MM:SS'
\* is stamped with that month, day and time of the current year.
C33_SyslogCurrentYear ==
    [][(ParsesLine /\ DOMAIN Head(queue).groups # {}) =>
          LET ts == Head(queue).groups[Winner(Head(queue))].timestamp
          IN ts.kind = "syslog" => last'.entry[1].timestamp = ts.t]_vars

\* The place of a rule in the order brute_force_login, impossible_travel,
\* login_outside_business_hours, privilege_escalation, blacklisted_ip, and
\* the severity of its alerts.
RuleRank(rule_name) ==
    CASE rule_name = "brute_force_login" -> 1
      [] rule_name = "impossible_travel" -> 2
      [] rule_name = "login_outside_business_hours" -> 3
      [] rule_name = "privilege_escalation" -> 4
      [] rule_name = "blacklisted_ip" -> 5
      [] OTHER -> 0

RuleSeverity(rule_name) ==
    CASE rule_name \in {"brute_force_login", "privilege_escalation"} -> "High"
      [] rule_name \in {"impossible_travel", "blacklisted_ip"} -> "Critical"
      [] rule_name = "login_outside_business_hours" -> "Medium"
      [] OTHER -> "none"

\* C34: the alerts an ingested event creates are at most five, follow one
\* another in the order of the rules with no rule twice, are what analyze
\* returned, carry the rule_name and the severity of their rule (High,
\* Critical, Medium, High, Critical) and the id of the event, and every stored
\* alert refers to a stored event.
C34_RuleOrder ==
    [][last'.n # last.n =>
          LET e == last'.entry[1]
              new == (Len(alerts) + 1)..Len(alerts')
          IN /\ Cardinality(new) <= 5
             /\ Cardinality(new) = Len(last'.detected)
             /\ \A a \in new :
                   /\ alerts'[a].rule_name = last'.detected[a - Len(alerts)].rule_name
                   /\ RuleRank(alerts'[a].rule_name) \in 1..5
                   /\ alerts'[a].severity = RuleSeverity(alerts'[a].rule_name)
                   /\ alerts'[a].log_entry_id = e.id
             /\ \A a, b \in new :
                   a < b => RuleRank(alerts'[a].rule_name) < RuleRank(alerts'[b].rule_name)
             /\ \A a \in DOMAIN alerts' :
                   \E i \in DOMAIN log_entries' :
                       log_entries'[i].id = alerts'[a].log_entry_id]_vars

\* The fifth failed login from the blacklisted address, with sudo in its raw
\* log, created three alerts in the order brute_force_login,
\* privilege_escalation, blacklisted_ip, after the alert its first login had
\* raised was resolved.
C34_Witness ==
    \E a \in DOMAIN alerts :
        /\ a + 2 \in DOMAIN alerts
        /\ alerts[a].rule_name = "brute_force_login"
        /\ alerts[a + 1].rule_name = "privilege_escalation"
        /\ alerts[a + 2].rule_name = "blacklisted_ip"
        /\ alerts[a].log_entry_id = 5
        /\ alerts[a + 1].log_entry_id = 5
        /\ alerts[a + 2].log_entry_id = 5
        /\ Len(log_entries) >= 5

\* C35: every alert that has both resolved_at and acknowledged_at has
\* resolved_at >= acknowledged_at.
C35_ResolvedAfterAcknowledged ==
    \A a \in DOMAIN alerts :
        (alerts[a].resolved_at # NoTime /\ alerts[a].acknowledged_at # NoTime) =>
            alerts[a].resolved_at >= alerts[a].acknowledged_at

\* The stored alerts of the rule for the address of e that lie in the dedup
\* window of length D before e: triggered_at >= e.timestamp - D.
InWindow(rule_name, e, D) ==
    {a \in DOMAIN alerts :
        /\ alerts[a].rule_name = rule_name
        /\ alerts[a].source_ip = e.source_ip
        /\ alerts[a].triggered_at >= e.timestamp - D}

\* C36: an ingested event that satisfies the trigger condition of the
\* blacklist rule or of the brute-force rule creates an alert of the rule when
\* every alert of the rule and address inside the dedup window is resolved,
\* and creates none while one of them is unresolved.
C36_ResolveRearms ==
    [][last'.n # last.n =>
          LET e == last'.entry[1]
              listed == e.source_ip \in blacklist
              brute == /\ e.event_type = "login" /\ e.status = "failed"
                       /\ e.source_ip # NoIp
                       /\ Cardinality(FailedLoginsIn(Visible', e.source_ip, e.timestamp))
                             >= brute_force_threshold
              Open(rule_name, D) ==
                  {a \in InWindow(rule_name, e, D) : ~alerts[a].resolved}
          IN /\ (listed /\ Open("blacklisted_ip", 60) = {})
                   => Cardinality(NewAlerts("blacklisted_ip")) = 1
             /\ Open("blacklisted_ip", 60) # {} => NewAlerts("blacklisted_ip") = {}
             /\ (brute /\ Open("brute_force_login", brute_force_window_minutes) = {})
                   => Cardinality(NewAlerts("brute_force_login")) = 1
             /\ Open("brute_force_login", brute_force_window_minutes) # {}
                   => NewAlerts("brute_force_login") = {}]_vars

\* The blacklist alert of the first event was resolved, the next event from
\* the address got a new alert inside the window of the resolved one, and the
\* event after that, with the new alert open, got none.
C36_Witness ==
    \E a, b \in DOMAIN alerts :
        /\ alerts[a].rule_name = "blacklisted_ip" /\ alerts[b].rule_name = "blacklisted_ip"
        /\ alerts[a].source_ip = Listed /\ alerts[b].source_ip = Listed
        /\ alerts[a].resolved /\ ~alerts[b].resolved
        /\ alerts[a].log_entry_id < alerts[b].log_entry_id
        /\ alerts[b].triggered_at - alerts[a].triggered_at < 60
        /\ \E i \in DOMAIN log_entries :
              /\ log_entries[i].id > alerts[b].log_entry_id
              /\ log_entries[i].source_ip = Listed
              /\ alerts[a].triggered_at >= log_entries[i].timestamp - 60
              /\ \A c \in DOMAIN alerts : alerts[c].log_entry_id # log_entries[i].id

\* The distance in km between the stored login p and the location loc.
DistanceTo(p, loc) ==
    calculate_distance(p.latitude[1], p.longitude[1], loc.latitude, loc.longitude)

\* C37: when the rule has selected a prior login with coordinates for an
\* ingested login e and the two places are at least 1000 km apart, the time
\* between them is less than distance / 800 hours; so an alert is raised
\* exactly when the selected login is at least 1000 km away and no unresolved
\* alert of the user suppresses it, whatever the time between the two logins.
C37_TimeNeverDecides ==
    [][last'.n # last.n =>
        LET e == last'.entry[1]
            loc == last'.loc
            rows == log_entries' \o session'
            new == NewAlerts("impossible_travel")
            suppressed ==
                \E a \in DOMAIN alerts :
                   /\ alerts[a].rule_name = "impossible_travel"
                   /\ alerts[a].username = e.username
                   /\ ~alerts[a].resolved
                   /\ alerts[a].triggered_at >= e.timestamp - 60
            prior == {p \in PriorLogins(rows) :
                        /\ TruthyNum(rows[p].latitude)
                        /\ TruthyNum(rows[p].longitude)}
        IN /\ rows[Len(rows)] = e
           /\ (loc = <<>> \/ loc[1].latitude = 0) => new = {}
           /\ (loc # <<>> /\ loc[1].latitude # 0) =>
                 /\ \A p \in prior :
                       /\ e.timestamp - rows[p].timestamp <= 60
                       /\ DistanceTo(rows[p], loc[1]) >= 1000 =>
                             (e.timestamp - rows[p].timestamp) * 800
                                 < DistanceTo(rows[p], loc[1]) * 60
                 /\ new # {} =>
                       /\ ~suppressed
                       /\ \E p \in prior : DistanceTo(rows[p], loc[1]) >= 1000
                 /\ (/\ ~suppressed /\ prior # {}
                     /\ \A p \in prior : DistanceTo(rows[p], loc[1]) >= 1000)
                       => new # {}]_vars

\* A login from Seattle exactly one hour after a login of the same user from
\* San Francisco, 1094 km away, raised an alert: 1094 / 800 hours is more
\* than the hour the query looks back.
C37_Witness ==
    \E i, j \in DOMAIN log_entries :
        /\ log_entries[i].source_ip = SanFranciscoIp /\ log_entries[i].timestamp = T0
        /\ log_entries[j].source_ip = SeattleIp /\ log_entries[j].timestamp = T0 + 60
        /\ \E a \in DOMAIN alerts :
              /\ alerts[a].rule_name = "impossible_travel"
              /\ alerts[a].log_entry_id = j
              /\ alerts[a].context[1].previous_ip = SanFranciscoIp
              /\ alerts[a].context[1].distance_km = 1094
              /\ alerts[a].context[1].time_hours = 100

\* C38: no impossible_travel alert is raised for an ingested login whose
\* location has the latitude 0, nor for one whose selected prior login (the
\* most recent qualifying one) has a stored latitude or longitude of 0,
\* however far and however recent the older qualifying logins are.
C38_ZeroIsMissing ==
    [][last'.n # last.n =>
        LET loc == last'.loc
            rows == log_entries' \o session'
            new == NewAlerts("impossible_travel")
            prior == PriorLogins(rows)
        IN /\ rows[Len(rows)] = last'.entry[1]
           /\ (loc # <<>> /\ loc[1].latitude = 0) => new = {}
           /\ (/\ prior # {}
               /\ \A p \in prior : \/ rows[p].latitude = <<0>>
                                   \/ rows[p].longitude = <<0>>)
                 => new = {}]_vars

\* alice logged in from San Francisco at T0, from the equator 10 minutes
\* later and from Tokyo 10 minutes after that, and there is no alert of the
\* rule: the login on the equator has no usable location of its own, and it
\* hides San Francisco, 8272 km and 20 minutes from Tokyo.
C38_Witness ==
    /\ Len(log_entries) = 3
    /\ log_entries[1].source_ip = SanFranciscoIp /\ log_entries[1].timestamp = T0
    /\ log_entries[1].latitude = <<SanFrancisco.latitude>>
    /\ log_entries[2].source_ip = PontianakIp /\ log_entries[2].timestamp = T0 + 10
    /\ log_entries[2].latitude = <<0>>
    /\ log_entries[3].source_ip = TokyoIp /\ log_entries[3].timestamp = T0 + 20
    /\ log_entries[3].latitude = <<Tokyo.latitude>>
    /\ \A a \in DOMAIN alerts : alerts[a].rule_name # "impossible_travel"

\* The keywords in the order of the list, and the lowercase words that hold
\* each of them as a substring.
KeywordOrder ==
    <<"sudo", "su", "admin", "root", "elevate", "privilege",
      "runas", "impersonate", "escalate">>

WordsHolding(keyword) ==
    CASE keyword = "sudo" -> {"sudo"}
      [] keyword = "su" -> {"su", "sudo", "success"}
      [] keyword = "admin" -> {"admin", "admin_access"}
      [] keyword = "root" -> {"root"}
      [] keyword = "privilege" -> {"privilege_escalation"}
      [] OTHER -> {}

\* C39: an ingested event that is not of an escalation type, and that no
\* open alert of its user suppresses, raises a privilege_escalation alert
\* exactly when a word of its raw_log, lowercased, holds a keyword as a
\* substring (su inside success counts); context.keyword is then the first
\* keyword of the list that occurs, wherever it stands in the raw_log.
C39_SubstringFirstKeyword ==
    [][(/\ last'.n # last.n
        /\ last'.entry[1].event_type
              \notin {"privilege_escalation", "admin_access", "sudo", "su"})
       => LET e == last'.entry[1]
              new == NewAlerts("privilege_escalation")
              occurs == {k \in DOMAIN KeywordOrder :
                           \E i \in DOMAIN e.raw_log :
                              Lower(e.raw_log[i]) \in WordsHolding(KeywordOrder[k])}
              suppressed ==
                  \E a \in DOMAIN alerts :
                     /\ alerts[a].rule_name = "privilege_escalation"
                     /\ alerts[a].username = e.username
                     /\ ~alerts[a].resolved
                     /\ alerts[a].triggered_at >= e.timestamp - 30
          IN /\ occurs = {} => new = {}
             /\ (occurs # {} /\ ~suppressed) => new # {}
             /\ \A a \in new :
                   /\ occurs # {}
                   /\ alerts'[a].severity = "High"
                   /\ \E k \in occurs :
                         /\ alerts'[a].context[1].keyword = KeywordOrder[k]
                         /\ \A j \in occurs : k <= j
             /\ (\E i \in DOMAIN e.raw_log : e.raw_log[i] = "success")
                   => \A a \in new : alerts'[a].context[1].keyword \in {"sudo", "su"}]_vars

\* A successful login of bob whose raw log reads "login success" raised an
\* alert with the keyword su, and one of eve whose raw log reads "root admin"
\* raised one with the keyword admin.
C39_Witness ==
    \E a, b \in DOMAIN alerts :
        /\ alerts[a].rule_name = "privilege_escalation"
        /\ alerts[a].username = "bob"
        /\ alerts[a].context[1].keyword = "su"
        /\ log_entries[alerts[a].log_entry_id].raw_log = <<"login", "success">>
        /\ alerts[b].rule_name = "privilege_escalation"
        /\ alerts[b].username = "eve"
        /\ alerts[b].context[1].keyword = "admin"
        /\ log_entries[alerts[b].log_entry_id].raw_log = <<"root", "admin">>

\* The rules that look at logins only.
LoginRules == {"brute_force_login", "impossible_travel", "login_outside_business_hours"}

\* C40: the event of a line read by the Apache/Nginx, generic auth,
\* Windows-style or JSON-ish template has event_type authentication and
\* raises no brute_force_login, impossible_travel or
\* login_outside_business_hours alert, whatever its status and whatever is
\* stored; an event of a line has event_type login only if the SSH or the
\* simple template read the line.
C40_TemplateEventType ==
    [][ParsesLine =>
          LET line == Head(queue)
              e == last'.entry[1]
          IN /\ e.raw_log = line.words
             /\ (/\ DOMAIN line.groups # {}
                 /\ Winner(line) \in {"apache_access", "auth_log",
                                       "windows_event", "json_log"}) =>
                   /\ e.event_type = "authentication"
                   /\ \A r \in LoginRules : NewAlerts(r) = {}
             /\ e.event_type = "login" =>
                   /\ DOMAIN line.groups # {}
                   /\ Winner(line) \in {"ssh_auth", "simple_log"}]_vars

\* After four failed logins of bob from one address within four minutes, a
\* fifth failure from it one minute later, written in the generic auth
\* format, and a success of alice from Tokyo at 20:15 in the JSON-ish format
\* are stored with event_type authentication, and there is no alert of the
\* three rules.
C40_Witness ==
    /\ Len(log_entries) = 6
    /\ \A i \in 1..4 :
          /\ log_entries[i].event_type = "login" /\ log_entries[i].status = "failed"
          /\ log_entries[i].source_ip = Attacker
          /\ log_entries[i].timestamp = T0 + i - 1
    /\ log_entries[5].raw_log = <<"user", "bob", "FAILED">>
    /\ log_entries[5].event_type = "authentication" /\ log_entries[5].status = "failed"
    /\ log_entries[5].source_ip = Attacker /\ log_entries[5].timestamp = T0 + 4
    /\ log_entries[6].raw_log = <<"timestamp", "ip", "user", "alice", "status", "success">>
    /\ log_entries[6].event_type = "authentication" /\ log_entries[6].status = "success"
    /\ log_entries[6].timestamp = T0 + 10 * 60 + 15
    /\ log_entries[6].latitude = <<Tokyo.latitude>>
    /\ \A a \in DOMAIN alerts : alerts[a].rule_name \notin LoginRules

====
